---- MODULE Spec2Model ----
(***************************************************************************)
(* Model of the hotel-site pipeline: the crawler's page store              *)
(* (controllers/scrapeController.js), the change-driven extraction and     *)
(* merge (controllers/aggregateScrapedController.js) and the merge         *)
(* adjudicator (services/aiService.js).                                    *)
(*                                                                         *)
(* A text is a tuple of tokens; the token " " is one whitespace character, *)
(* "\r\n" and "\n" are line ends, every other token is a run of            *)
(* non-blank characters.  The empty string is << >>.  SQL NULL and the     *)
(* JavaScript null/undefined are the tuple NULL.                           *)
(***************************************************************************)
EXTENDS Integers, Sequences, FiniteSets, TLC

\* ------------------------------------------------------------------ texts

NULL == <<"NULL">>
EMPTY == << >>
SP == " "
CRLF == "\r\n"
LF == "\n"
NA == <<"N/A">>

IsBlankToken(t) == t \in {SP, CRLF, LF}

RECURSIVE TrimLeft(_)
TrimLeft(s) == IF s # EMPTY /\ IsBlankToken(Head(s)) THEN TrimLeft(Tail(s)) ELSE s

RECURSIVE TrimRight(_)
TrimRight(s) ==
    IF s # EMPTY /\ IsBlankToken(s[Len(s)])
    THEN TrimRight(SubSeq(s, 1, Len(s) - 1))
    ELSE s

\* String.prototype.trim
Trim(s) == TrimRight(TrimLeft(s))

\* JavaScript truthiness of a string-or-null value: !x holds for null and "".
Falsy(x) == x = NULL \/ x = EMPTY

\* (x || '')
OrEmpty(x) == IF Falsy(x) THEN EMPTY ELSE x

\* Unicode NFC of one token: "cafe_nfd" is the decomposed spelling of the
\* text whose composed spelling is "cafe_nfc"; every other token is already NFC.
NFCToken(t) == IF t = "cafe_nfd" THEN "cafe_nfc" ELSE t

NFC(s) == [i \in DOMAIN s |-> NFCToken(s[i])]

\* SHA-256 hex digest: injective on the texts of the model.
SHA256(s) == <<"sha256">> \o s

\* A checksum of the text as it is, without the normalization.
computeChecksumNoNFC(content) == SHA256(content)

computeChecksum(content) == SHA256(NFC(content))

\* replace(/\r\n/g, '\n').trim()
normalizeMarkdown(markdown) ==
    LET m == OrEmpty(markdown)
        lf == [i \in DOMAIN m |-> IF m[i] = CRLF THEN LF ELSE m[i]]
    IN Trim(lf)

\* ------------------------------------------------------------ the schema

\* MD_CAT_FIELDS: two of the nineteen categories, one ordinary and the special
\* "other"; the code treats every category but "other" alike.
MD_CAT_FIELDS == <<"guest_rooms", "other">>

\* The categories with one of the deprecated primary fields (MD_PR_FIELDS) added.
CategoryFieldsWithPrimary == <<"name">> \o MD_CAT_FIELDS

\* const CATEGORY_FIELDS = MD_CAT_FIELDS.map(f => ({ name: f.name, ... }))
CATEGORY_FIELDS == MD_CAT_FIELDS

OTHER_STRUCTURED == "other_structured"

\* A key an LLM response may carry that is no category of the schema.
BogusKey == "bogus_key"

\* ------------------------------------------------------------ the world

Hotel == "h1"
SeedUrl == "u1"

\* parseInt(process.env.CRAWLER_MAX_CONCURRENCY || '3', 10)
DefaultMaxConcurrency == 3

\* The URLs of a site of two pages, and of one of three.
SiteOfTwo == {"u1", "u2"}
SiteOfThree == {"u1", "u2", "u3"}

\* What the handler finds in a fetched page: a page to save, a response with
\* status >= 400, a title with "404" or "500", or no HTML after the cleaning.
PageKinds == {"ok", "status_error", "title_error", "empty_html"}

\* What the HTML->Markdown conversion of a fetched page can yield.
MarkdownRaws == { <<"cafe_nfd", CRLF>>, <<"bar">>, <<SP>> }

\* maxDepth when CRAWLER_MAX_DEPTH is unset
Infinity == 99

VARIABLES
    pages,              \* hotel_page_data: sequence of rows, id = index
    marketData,         \* market_data row of the hotel
    pc,                 \* where the running entry point is
    lastOp,             \* how the entry-point call that ended last ended;
                        \* "none" while one is running
    nonScrapedPageMap,  \* scrapeHotel: page_url -> id of rows not yet saved
    visited,            \* scrapeHotel: effective URLs saved in this run
    queue,              \* crawler: pending requests
    enqueued,           \* crawler: URLs ever put in the request queue
    maxDepth,           \* scrapeHotel: CRAWLER_MAX_DEPTH of this run
    savedUrls,          \* history: URLs saveScrapedPage saved in the last run
    errorUrls,          \* history: URLs whose page was an error page in the last run
    maxConcurrency,     \* CRAWLER_MAX_CONCURRENCY of the environment
    stats,              \* scrapeHotel: scraped, skipped, errors of the last run
    agg,                \* aggregateScrapedData: its locals and run history
    lastWriteKeys,      \* history: keys of the payload the last aggregateScrapedData
                        \* run gave to upsertMarketData, {} if it made no upsert
    writtenKeys,        \* history: keys of every upsertMarketData payload so far
    call,               \* a single call of one function: its arguments and result
    site,               \* the URLs of the hotel's site
    driver,             \* main: its hotels, its mode and where it is
    tracked             \* the columns depth, markdown_prev, is_checksum_updated
                        \* and llm_output of hotel_page_data that are followed

vars == << pages, marketData, pc, lastOp, nonScrapedPageMap, visited,
           queue, enqueued, maxDepth, savedUrls, errorUrls, maxConcurrency, stats,
           agg, lastWriteKeys, writtenKeys, call, site, driver, tracked >>

writeVars == << lastWriteKeys, writtenKeys >>

crawlLocals == << nonScrapedPageMap, visited, queue, enqueued, maxDepth >>

othersThanCall ==
    << pages, marketData, pc, lastOp, nonScrapedPageMap, visited, queue, enqueued,
       maxDepth, savedUrls, errorUrls, maxConcurrency, stats, agg, lastWriteKeys,
       writtenKeys, site, driver, tracked >>

crawlVars == << nonScrapedPageMap, visited, queue, enqueued, maxDepth, savedUrls,
               errorUrls, maxConcurrency, stats >>

\* ------------------------------------------------------- the page store

Ids(table) == DOMAIN table

RowIdsOf(table, hotelUuid) == {i \in Ids(table) : table[i].hotel_uuid = hotelUuid}

\* SELECT id, checksum ... WHERE hotel_uuid = ? AND page_url = ?
RowIdsOfUrl(table, hotelUuid, url) ==
    {i \in RowIdsOf(table, hotelUuid) : table[i].page_url = url}

\* What a column that is not followed holds in every row.
Untracked == <<"untracked">>

ColumnValue(name, value) == IF name \in tracked THEN value ELSE Untracked

\* if (!Number.isInteger(depth) || depth < 0) depth = 9999
DepthValue(depth) == IF depth \in Nat THEN depth ELSE 9999

\* The default of is_checksum_updated, a column the INSERT does not name.
IsChecksumUpdatedDefault == 0

\* INSERT INTO hotel_page_data (..., depth, active) VALUES (..., ?, 1): the
\* columns the statement does not name take their default.
InsertPage(table, hotelUuid, url, markdown, checksum, depth) ==
    Append(table, [hotel_uuid |-> hotelUuid, page_url |-> url, active |-> 1,
                   markdown |-> markdown, checksum |-> checksum,
                   llm_input_checksum |-> NULL,
                   depth |-> ColumnValue("depth", depth),
                   markdown_prev |-> ColumnValue("markdown_prev", NULL),
                   is_checksum_updated |-> ColumnValue("is_checksum_updated",
                                                      IsChecksumUpdatedDefault),
                   llm_output |-> ColumnValue("llm_output", NULL)])

\* An UPDATE that leaves active as it is.
UpdatePageKeepsActive(table, id, markdown, checksum, isChecksumUpdated, depth) ==
    [table EXCEPT ![id] =
        [@ EXCEPT !.markdown_prev = ColumnValue("markdown_prev", table[id].markdown),
                  !.markdown = markdown,
                  !.checksum = checksum,
                  !.is_checksum_updated =
                      ColumnValue("is_checksum_updated", isChecksumUpdated),
                  !.depth = ColumnValue("depth", depth)]]

\* UPDATE hotel_page_data SET markdown_prev = markdown, markdown = ?,
\*   checksum = ?, is_checksum_updated = ?, depth = ?, active = 1 WHERE id = ?
UpdatePage(table, id, markdown, checksum, isChecksumUpdated, depth) ==
    [table EXCEPT ![id] =
        [@ EXCEPT !.markdown_prev = ColumnValue("markdown_prev", table[id].markdown),
                  !.markdown = markdown,
                  !.checksum = checksum,
                  !.is_checksum_updated =
                      ColumnValue("is_checksum_updated", isChecksumUpdated),
                  !.depth = ColumnValue("depth", depth),
                  !.active = 1]]

\* saveScrapedPage's checks of markdown and checksum (hotelUuid and url are
\* non-empty strings here; the html check is the caller's).
SaveInputsValid(markdown, checksum) ==
    /\ ~Falsy(checksum)
    /\ ~Falsy(markdown)

\* What the lookup of saveScrapedPage can find: no row (targetId 0), or the
\* id and the checksum of a row of the pair (LIMIT 1: any of them).
NotFound == [targetId |-> 0, existingChecksum |-> NULL]

LookupPage(table, hotelUuid, url) ==
    LET found == RowIdsOfUrl(table, hotelUuid, url)
    IN IF found # {}
       THEN {[targetId |-> i, existingChecksum |-> table[i].checksum] : i \in found}
       ELSE {NotFound}

\* An isChecksumUpdated that is 1 whenever a row was found.
IsChecksumUpdatedWhenFound(lookup, checksum) ==
    IF lookup.targetId # 0 THEN 1 ELSE 0

\* isChecksumUpdated: 1 when a row was found whose checksum is not null and
\* is not the new one.
IsChecksumUpdated(lookup, checksum) ==
    IF /\ lookup.targetId # 0
       /\ lookup.existingChecksum # NULL
       /\ lookup.existingChecksum # checksum
    THEN 1 ELSE 0

\* The UPDATE of the row found, or the INSERT when none was.
WritePage(table, lookup, hotelUuid, url, markdown, checksum, depth) ==
    IF lookup.targetId # 0
    THEN UpdatePage(table, lookup.targetId, markdown, checksum,
                    IsChecksumUpdated(lookup, checksum), DepthValue(depth))
    ELSE InsertPage(table, hotelUuid, url, markdown, checksum, DepthValue(depth))

\* The tables saveScrapedPage can leave when all its statements succeed and
\* no other statement runs between its lookup and its write.
saveScrapedPage(table, hotelUuid, url, markdown, checksum, depth) ==
    {WritePage(table, lookup, hotelUuid, url, markdown, checksum, depth) :
        lookup \in LookupPage(table, hotelUuid, url)}

\* SELECT id, page_url, checksum ... WHERE hotel_uuid = ?
getExistingPages(table, hotelUuid) == RowIdsOf(table, hotelUuid)

\* new Map(existingPages.map(page => [page.page_url, page.id])): a later row of
\* the same URL replaces an earlier one.
PageMapOf(table, ids) ==
    LET urls == {table[i].page_url : i \in ids}
        last(u) == CHOOSE i \in ids :
                      /\ table[i].page_url = u
                      /\ \A j \in ids : table[j].page_url = u => j <= i
    IN [u \in urls |-> last(u)]

MapDelete(map, key) == [k \in (DOMAIN map) \ {key} |-> map[k]]

MapValues(map) == {map[k] : k \in DOMAIN map}

\* A deactivation that also forgets what the LLM was given.
deactivatePagesByIdsForgets(table, pageIds) ==
    [i \in DOMAIN table |->
        IF i \in pageIds
        THEN [table[i] EXCEPT !.active = 0, !.llm_input_checksum = NULL]
        ELSE table[i]]

\* UPDATE hotel_page_data SET active = 0 WHERE id IN (...)
deactivatePagesByIds(table, pageIds) ==
    [i \in DOMAIN table |->
        IF i \in pageIds THEN [table[i] EXCEPT !.active = 0] ELSE table[i]]

ActiveUrls(table, hotelUuid) ==
    {table[i].page_url : i \in {j \in RowIdsOf(table, hotelUuid) : table[j].active = 1}}

\* ------------------------------------------------- JavaScript values, JSON

\* A JavaScript value: its typeof-like tag t, its text v (of a string; of a
\* boolean, <<"true">> or <<"false">>) and, of an object, its properties.
Str(s) == [t |-> "string", v |-> s, props |-> << >>]
Bool(b) == [t |-> "boolean", v |-> IF b THEN <<"true">> ELSE <<"false">>, props |-> << >>]
Num == [t |-> "number", v |-> <<"42">>, props |-> << >>]
Undefined == [t |-> "undefined", v |-> EMPTY, props |-> << >>]
JsNull == [t |-> "null", v |-> EMPTY, props |-> << >>]
Arr == [t |-> "array", v |-> EMPTY, props |-> << >>]
Obj(props) == [t |-> "object", v |-> EMPTY, props |-> props]
EmptyObj == Obj(<< >>)

\* typeof x === 'object'
TypeofObject(x) == x.t \in {"object", "array", "null"}

\* the truthiness of a JavaScript value
Truthy(x) ==
    CASE x.t \in {"undefined", "null"} -> FALSE
      [] x.t = "boolean" -> x.v = <<"true">>
      [] x.t = "string" -> x.v # EMPTY
      [] OTHER -> TRUE

\* obj[key]
Get(obj, key) ==
    IF obj.t = "object" /\ key \in DOMAIN obj.props THEN obj.props[key] ELSE Undefined

\* The content of an LLM completion, by what llmOutputToJson finds in it:
\*   "empty"    no content at all ('' after the || '' of the caller)
\*   "embedded" text in which extractJson finds a JSON object or array (json)
\*   "bare"     a JSON text that is no object or array (a scalar or null), with
\*              or without a code fence: extractJson finds nothing, JSON.parse
\*              of the cleaned text yields json
\*   "garbage"  no JSON: JSON.parse throws
Content(kind, json) == [kind |-> kind, json |-> json]

\* llmOutputToJson: {} for no content, the first JSON value extractJson finds,
\* else JSON.parse of the text without its fences, {} when that throws.
llmOutputToJson(raw) ==
    CASE raw.kind = "empty" -> EmptyObj
      [] raw.kind = "embedded" -> raw.json
      [] raw.kind = "bare" -> raw.json
      [] OTHER -> EmptyObj

\* JSON.stringify of an object
JSONstringify(x) ==
    IF x.t = "object" /\ DOMAIN x.props # {} THEN <<"{json}">> ELSE <<"{}">>

\* An LLM request: it throws, or returns a completion with this content.
Throws == [throws |-> TRUE, content |-> Content("empty", EmptyObj)]
Returns(content) == [throws |-> FALSE, content |-> content]

\* ------------------------------------------------------- Merge Adjudicator

\* An adjudicator that takes the new text when its request fails.
mergeTextsByLLMUpdatesOnError(existingText, newText, llm) ==
    LET existing == Trim(OrEmpty(existingText))
        incoming == Trim(OrEmpty(newText))
    IN IF incoming = EMPTY \/ existing = incoming
       THEN [isUpdate |-> FALSE, mergedText |-> existing, requests |-> 0]
       ELSE IF llm.throws
            THEN [isUpdate |-> TRUE, mergedText |-> incoming, requests |-> 1]
            ELSE LET parsed == llmOutputToJson(llm.content)
                 IN IF /\ Truthy(parsed)
                       /\ TypeofObject(parsed)
                       /\ Get(parsed, "isUpdate").t = "boolean"
                       /\ Get(parsed, "mergedText").t = "string"
                    THEN [isUpdate |-> Get(parsed, "isUpdate").v = <<"true">>,
                          mergedText |-> Get(parsed, "mergedText").v,
                          requests |-> 1]
                    ELSE [isUpdate |-> TRUE, mergedText |-> incoming, requests |-> 1]

\* An adjudicator without the two early returns.
mergeTextsByLLMNoGuard(existingText, newText, llm) ==
    LET existing == Trim(OrEmpty(existingText))
    IN IF llm.throws
       THEN [isUpdate |-> FALSE, mergedText |-> existing, requests |-> 1]
       ELSE LET parsed == llmOutputToJson(llm.content)
            IN IF /\ Truthy(parsed)
                  /\ TypeofObject(parsed)
                  /\ Get(parsed, "isUpdate").t = "boolean"
                  /\ Get(parsed, "mergedText").t = "string"
               THEN [isUpdate |-> Get(parsed, "isUpdate").v = <<"true">>,
                     mergedText |-> Get(parsed, "mergedText").v,
                     requests |-> 1]
               ELSE [isUpdate |-> FALSE, mergedText |-> existing, requests |-> 1]

\* AIService.mergeTextsByLLM: the result, and the number of LLM requests made.
\* llm is the outcome of the one request it may make.
mergeTextsByLLM(existingText, newText, llm) ==
    LET existing == Trim(OrEmpty(existingText))
        incoming == Trim(OrEmpty(newText))
    IN IF incoming = EMPTY
       THEN [isUpdate |-> FALSE, mergedText |-> existing, requests |-> 0]
       ELSE IF existing = incoming
       THEN [isUpdate |-> FALSE, mergedText |-> existing, requests |-> 0]
       ELSE IF llm.throws
       THEN [isUpdate |-> FALSE, mergedText |-> existing, requests |-> 1]
       ELSE LET parsed == llmOutputToJson(llm.content)
            IN IF /\ Truthy(parsed)
                  /\ TypeofObject(parsed)
                  /\ Get(parsed, "isUpdate").t = "boolean"
                  /\ Get(parsed, "mergedText").t = "string"
               THEN [isUpdate |-> Get(parsed, "isUpdate").v = <<"true">>,
                     mergedText |-> Get(parsed, "mergedText").v,
                     requests |-> 1]
               ELSE [isUpdate |-> FALSE, mergedText |-> existing, requests |-> 1]

\* AIService.textToJsonByLLM
textToJsonByLLM(rawText, llm) ==
    LET text == Trim(OrEmpty(rawText))
    IN IF text = EMPTY THEN EmptyObj
       ELSE IF llm.throws THEN EmptyObj
       ELSE LET parsed == llmOutputToJson(llm.content)
            IN IF Truthy(parsed) /\ TypeofObject(parsed) /\ parsed.t # "array"
               THEN parsed
               ELSE EmptyObj

\* ------------------------------------------- getActiveMarkdownPages (SQL)

\* SQL's three truth values: "T", "F" and "U" (unknown, of a comparison with NULL).
SqlBool(b) == IF b THEN "T" ELSE "F"

SqlNot(x) == CASE x = "T" -> "F" [] x = "F" -> "T" [] OTHER -> "U"

SqlAnd(x, y) ==
    CASE x = "F" \/ y = "F" -> "F"
      [] x = "T" /\ y = "T" -> "T"
      [] OTHER -> "U"

\* a = b
SqlEq(a, b) == IF a = NULL \/ b = NULL THEN "U" ELSE SqlBool(a = b)

\* a <=> b
SqlNullSafeEq(a, b) == SqlBool(a = b)

\* a != b
SqlNe(a, b) == SqlNot(SqlEq(a, b))

\* a IS NOT NULL
SqlIsNotNull(a) == SqlBool(a # NULL)

\* The clause with a plain comparison: NOT (checksum = llm_input_checksum).
WhereDirtyPlainEq(row, hotelUuid) ==
    SqlAnd(SqlBool(row.active = 1),
    SqlAnd(SqlBool(row.hotel_uuid = hotelUuid),
    SqlAnd(SqlIsNotNull(row.markdown),
    SqlAnd(SqlNe(row.markdown, EMPTY),
           SqlNot(SqlEq(row.checksum, row.llm_input_checksum))))))

\* WHERE active = 1 AND hotel_uuid = ? AND markdown IS NOT NULL
\*   AND markdown != '' AND NOT (checksum <=> llm_input_checksum)
WhereDirty(row, hotelUuid) ==
    SqlAnd(SqlBool(row.active = 1),
    SqlAnd(SqlBool(row.hotel_uuid = hotelUuid),
    SqlAnd(SqlIsNotNull(row.markdown),
    SqlAnd(SqlNe(row.markdown, EMPTY),
           SqlNot(SqlNullSafeEq(row.checksum, row.llm_input_checksum))))))

\* The ids of a set in ascending order.
RECURSIVE Ascending(_)
Ascending(ids) ==
    IF ids = {} THEN << >>
    ELSE LET m == CHOOSE i \in ids : \A j \in ids : i <= j
         IN <<m>> \o Ascending(ids \ {m})

\* A query that selects every active row of the hotel.
getActiveMarkdownPagesAllActive(table, hotelUuid, queryOk) ==
    IF queryOk
    THEN Ascending({i \in Ids(table) :
                       table[i].active = 1 /\ table[i].hotel_uuid = hotelUuid})
    ELSE << >>

\* getActiveMarkdownPages: the ids of the selected rows, or [] when the query
\* fails (its catch).
getActiveMarkdownPages(table, hotelUuid, queryOk) ==
    IF queryOk
    THEN Ascending({i \in Ids(table) : WhereDirty(table[i], hotelUuid) = "T"})
    ELSE << >>

\* A markLLMInput that writes nothing.
markLLMInputNothing(table, pageId, checksum, llm_output) == table

\* A markLLMInput that leaves llm_output as it is.
markLLMInputChecksumOnly(table, pageId, checksum, llm_output) ==
    [table EXCEPT ![pageId] = [@ EXCEPT !.llm_input_checksum = checksum]]

\* UPDATE hotel_page_data SET llm_input_checksum = ?, llm_output = ?,
\*   llm_updated = CURRENT_TIMESTAMP WHERE id = ?
markLLMInput(table, pageId, checksum, llm_output) ==
    [table EXCEPT ![pageId] =
        [@ EXCEPT !.llm_input_checksum = checksum,
                  !.llm_output = ColumnValue("llm_output", llm_output)]]

\* ------------------------------------------------------ Per-Page Extractor

\* An extractFieldsFromPage that returns whatever the response parses to.
extractFieldsFromPageUnchecked(llm) == llmOutputToJson(llm.content)

\* extractFieldsFromPage, given the outcome of its LLM request (which did not
\* throw): the parsed response, or {} when it is no object.
extractFieldsFromPage(llm) ==
    LET parsed == llmOutputToJson(llm.content)
    IN IF ~Truthy(parsed) \/ ~TypeofObject(parsed) THEN EmptyObj ELSE parsed

\* CATEGORY_FIELDS.forEach(field => { const val = extracted[field.name];
\*   if (typeof val === 'string' && val.trim()) fieldBuckets[...].push(...) })
CollectSnippets(fieldBuckets, extracted, pageUrl) ==
    [name \in DOMAIN fieldBuckets |->
        LET val == Get(extracted, name)
        IN IF val.t = "string" /\ Trim(val.v) # EMPTY
           THEN Append(fieldBuckets[name], [page_url |-> pageUrl, value |-> Trim(val.v)])
           ELSE fieldBuckets[name]]

\* ------------------------------------------------------- Per-Field Refiner

\* (snippets || []).filter(s => s && s.value) ... if (!joined) return ''
RefinerInput(snippets) == SelectSeq(snippets, LAMBDA s : s.value # EMPTY)

\* A mergeAndRefineSnippets that asks the LLM whatever it is given.
RefinedValueAlwaysAsks(snippets, content) == Trim(OrEmpty(content))

\* mergeAndRefineSnippets, given the outcome of its LLM request (which did
\* not throw): content.trim() || ''.
RefinedValue(snippets, content) ==
    IF RefinerInput(snippets) = << >> THEN EMPTY ELSE Trim(OrEmpty(content))

\* ------------------------------------------------------ market_data (spec)

NoRecord == [exists |-> FALSE, cols |-> << >>]

\* MarketDataService.getMarketDataByUuid: the row, or null.
Column(record, name) ==
    IF record.exists /\ name \in DOMAIN record.cols THEN record.cols[name] ELSE NULL

\* MarketDataService.upsertMarketData(partial_map, id): the row is created if
\* there is none, and only the columns of the map are written.
upsertMarketData(record, payload) ==
    [exists |-> TRUE,
     cols |-> [name \in (DOMAIN record.cols) \cup (DOMAIN payload) |->
                  IF name \in DOMAIN payload THEN payload[name] ELSE record.cols[name]]]

\* No single function call is being looked at.
NoCall == [op |-> "none"]

\* main is not running.
NoDriver == [pc |-> "none"]

\* ------------------------------------------------------------ scrapeHotel

FieldNames(fields) == {fields[i] : i \in DOMAIN fields}

\* The locals of aggregateScrapedData (dropped once the code no longer reads
\* them) and the history of the run:
\*   prev           the entry-point call before this run: "scrape" or
\*                  "aggregate" when it was one that returned, else "other"
\*   prevAllMarked  the call before was an aggregateScrapedData that returned,
\*                  whose dirty-page query succeeded and which marked every
\*                  page it selected
\*   prevSelected   ... and it selected at least one page
\*   queryFailed    this run's getActiveMarkdownPages query failed
\*   selected       this run's query returned at least one page
\*   unmarked       selected ids whose extractor call threw or whose
\*                  markLLMInput write failed
\*   adjRequests, adjAnswered   adjudicator LLM requests made / answered
\*   upserts        upsertMarketData calls of the run
\*   DEBUG2_LOGS    per adjudicated category, what mergeTextsByLLM returned
\*   extractorThrew the extractor's request threw for a page of this run
AggIdle ==
    [pagesList |-> << >>, idx |-> 0, fieldIdx |-> 0,
     fieldBuckets |-> << >>, newData |-> << >>, existingData |-> NoRecord,
     mergedData |-> << >>, DEBUG2_LOGS |-> << >>, extractorThrew |-> FALSE,
     prev |-> "other", prevAllMarked |-> FALSE, prevSelected |-> FALSE,
     queryFailed |-> FALSE, selected |-> FALSE, unmarked |-> {},
     adjRequests |-> 0, adjAnswered |-> FALSE, upserts |-> 0]

\* The run's history once the entry point has returned or thrown.
AggReturned(a) ==
    [AggIdle EXCEPT !.prev = a.prev,
                    !.prevAllMarked = a.prevAllMarked,
                    !.prevSelected = a.prevSelected,
                    !.queryFailed = a.queryFailed,
                    !.selected = a.selected,
                    !.unmarked = a.unmarked,
                    !.adjRequests = a.adjRequests,
                    !.adjAnswered = a.adjAnswered,
                    !.upserts = a.upserts]

CrawlIdle ==
    /\ nonScrapedPageMap' = << >>
    /\ visited' = {}
    /\ queue' = {}
    /\ enqueued' = {}
    /\ maxDepth' = Infinity

\* const stats = { scraped: 0, skipped: 0, errors: 0 }
NoStats == [scraped |-> 0, skipped |-> 0, errors |-> 0]

\* The handler of a request has not had the answer of saveScrapedPage's SELECT.
NoLookup == [targetId |-> -1, existingChecksum |-> NULL]

\* A request of the queue whose handler has not started; retryCount is the
\* number of times the crawler has put it back after a failure.
Queued(url, depth) ==
    [url |-> url, depth |-> depth, pageUrl |-> "", page |-> "", lookup |-> NoLookup,
     retryCount |-> 0]

InHandler(req) == req.pageUrl # ""

\* const existingPages = await getExistingPages(hotelUuid): the rows, or []
\* when the query fails (the catch of getExistingPages).
ScrapeStart ==
    /\ pc = "idle"
    /\ \E queryOk \in BOOLEAN, depthLimit \in {0, Infinity} :
          /\ nonScrapedPageMap' =
                IF queryOk
                THEN PageMapOf(pages, getExistingPages(pages, Hotel))
                ELSE << >>
          /\ maxDepth' = depthLimit
    /\ visited' = {}
    /\ savedUrls' = {}
    /\ errorUrls' = {}
    /\ stats' = NoStats
    /\ queue' = {Queued(SeedUrl, 0)}
    /\ enqueued' = {SeedUrl}
    /\ pc' = "crawl"
    /\ agg' = AggIdle
    /\ lastOp' = "none"
    /\ lastWriteKeys' = {}
    /\ UNCHANGED << pages, marketData, maxConcurrency, writtenKeys, call, site, tracked,
                    driver >>

\* if (visited.has(pageUrl)) return;  if (currentDepth > maxDepth) return;
HandlerSkips(req, pageUrl) ==
    \/ pageUrl \in visited
    \/ (maxDepth # Infinity /\ req.depth > maxDepth)

\* The head of requestHandler, up to its first await: pageUrl is the
\* effective URL (response.url()), which a redirect makes differ from
\* request.url; the request is dropped as skipped, or its handler goes on.
HandlerEnters ==
    /\ pc = "crawl"
    /\ Cardinality({r \in queue : InHandler(r)}) < maxConcurrency
    /\ \E req \in queue, pageUrl \in site, kind \in PageKinds :
          /\ ~InHandler(req)
          /\ IF HandlerSkips(req, pageUrl)
             THEN /\ queue' = queue \ {req}
                  /\ stats' = [stats EXCEPT !.skipped = @ + 1]
             ELSE /\ queue' = (queue \ {req}) \cup
                                 {[req EXCEPT !.pageUrl = pageUrl, !.page = kind]}
                  /\ stats' = stats
    /\ UNCHANGED << pages, marketData, pc, lastOp, nonScrapedPageMap, visited,
                    enqueued, maxDepth, savedUrls, errorUrls, maxConcurrency, agg,
                    writeVars, call, site, tracked, driver >>

\* A handler that never gets past an error page.
HandlerErrorPageHangs(req) ==
    /\ req.page # "ok"
    /\ UNCHANGED << queue, stats, errorUrls, pages, nonScrapedPageMap, visited, enqueued,
                    savedUrls >>

\* A handler that records an error page as visited.
HandlerErrorPageVisited(req) ==
    /\ req.page # "ok"
    /\ queue' = queue \ {req}
    /\ stats' = [stats EXCEPT !.errors = @ + 1]
    /\ errorUrls' = errorUrls \cup {req.pageUrl}
    /\ visited' = visited \cup {req.pageUrl}
    /\ UNCHANGED << pages, nonScrapedPageMap, enqueued, savedUrls >>

\* status >= 400, a title with 404/500, or empty cleaned HTML: an error is
\* counted and the handler returns before the save.
HandlerErrorPage(req) ==
    /\ req.page # "ok"
    /\ queue' = queue \ {req}
    /\ stats' = [stats EXCEPT !.errors = @ + 1]
    /\ errorUrls' = errorUrls \cup {req.pageUrl}
    /\ UNCHANGED << pages, nonScrapedPageMap, visited, enqueued, savedUrls >>

\* saveScrapedPage throws (a rejected argument, such as markdown that is
\* empty after normalizeMarkdown, or a failed statement); the handler's catch
\* counts an error.
HandlerSaveThrows(req) ==
    /\ req.page = "ok"
    /\ \E raw \in MarkdownRaws, dbFails \in BOOLEAN :
          LET markdown == normalizeMarkdown(raw)
              checksum == computeChecksum(markdown)
          IN dbFails \/ (req.lookup = NoLookup /\ ~SaveInputsValid(markdown, checksum))
    /\ queue' = queue \ {req}
    /\ stats' = [stats EXCEPT !.errors = @ + 1]
    /\ UNCHANGED << pages, nonScrapedPageMap, visited, enqueued, savedUrls, errorUrls >>

\* An enqueueLinks whose transformRequestFunction does not look at the depth.
LinksToEnqueueAnyDepth(links, seen, known, currentDepth, depthLimit) ==
    {Queued(u, currentDepth + 1) : u \in {l \in links : l \notin seen /\ l \notin known}}

\* The links the handler puts in the queue: not visited, within the depth
\* limit, and not already known to the request queue.
LinksToEnqueue(links, seen, known, currentDepth, depthLimit) ==
    {Queued(u, currentDepth + 1) :
        u \in {l \in links : /\ l \notin seen
                             /\ l \notin known
                             /\ ~(depthLimit # Infinity /\ currentDepth + 1 > depthLimit)}}

\* saveScrapedPage up to the answer of its SELECT: the handler awaits it,
\* and other handlers run before the write.
HandlerLooksUp(req) ==
    /\ req.page = "ok"
    /\ req.lookup = NoLookup
    /\ \E lookup \in LookupPage(pages, Hotel, req.pageUrl) :
          queue' = (queue \ {req}) \cup {[req EXCEPT !.lookup = lookup]}
    /\ UNCHANGED << pages, nonScrapedPageMap, visited, enqueued, savedUrls, errorUrls,
                    stats >>

\* The rest of saveScrapedPage (markdown and checksum are the ones it was
\* called with), visited.add, nonScrapedPageMap.delete, stats.scraped += 1,
\* enqueueLinks.
HandlerSaves(req) ==
    /\ req.page = "ok"
    /\ req.lookup # NoLookup
    /\ \E raw \in MarkdownRaws, links \in SUBSET site :
          LET markdown == normalizeMarkdown(raw)
              checksum == computeChecksum(markdown)
              added == LinksToEnqueue(links, visited \cup {req.pageUrl}, enqueued,
                                      req.depth, maxDepth)
          IN /\ SaveInputsValid(markdown, checksum)
             /\ pages' = WritePage(pages, req.lookup, Hotel, req.pageUrl, markdown,
                                   checksum, req.depth)
             /\ queue' = (queue \ {req}) \cup added
             /\ enqueued' = enqueued \cup {r.url : r \in added}
    /\ visited' = visited \cup {req.pageUrl}
    /\ nonScrapedPageMap' =
          IF req.pageUrl \in DOMAIN nonScrapedPageMap
          THEN MapDelete(nonScrapedPageMap, req.pageUrl)
          ELSE nonScrapedPageMap
    /\ stats' = [stats EXCEPT !.scraped = @ + 1]
    /\ savedUrls' = savedUrls \cup {req.pageUrl}
    /\ errorUrls' = errorUrls

\* The rest of requestHandler, for one of the handlers that are running.
requestHandler ==
    /\ pc = "crawl"
    /\ \E req \in queue :
          /\ InHandler(req)
          /\ \/ HandlerErrorPage(req)
             \/ HandlerSaveThrows(req)
             \/ HandlerLooksUp(req)
             \/ HandlerSaves(req)
    /\ UNCHANGED << marketData, pc, lastOp, maxDepth, maxConcurrency, agg, writeVars,
                    call, site, tracked, driver >>

\* maxRetries when CRAWLER_MAX_RETRIES is unset
MaxRetries == 2

\* The crawler fails a request outside the handler's try/catch (the
\* navigation fails, or the handler exceeds requestHandlerTimeoutSecs): with
\* retries left, errorHandler counts an error and the request is put back;
\* after maxRequestRetries retries the request is dropped.
RequestFails ==
    /\ pc = "crawl"
    /\ Cardinality({r \in queue : InHandler(r)}) < maxConcurrency
    /\ \E req \in queue :
          /\ ~InHandler(req)
          /\ IF req.retryCount < MaxRetries
             THEN /\ queue' = (queue \ {req}) \cup {[req EXCEPT !.retryCount = @ + 1]}
                  /\ stats' = [stats EXCEPT !.errors = @ + 1]
             ELSE /\ queue' = queue \ {req}
                  /\ stats' = stats
    /\ UNCHANGED << pages, marketData, pc, lastOp, nonScrapedPageMap, visited,
                    enqueued, maxDepth, savedUrls, errorUrls, maxConcurrency, agg,
                    writeVars, call, site, tracked, driver >>

\* crawler.run rejects: scrapeHotel rethrows, before the deactivation.
ScrapeThrows ==
    /\ pc = "crawl"
    /\ pc' = "idle"
    /\ lastOp' = "scrape_threw"
    /\ CrawlIdle
    /\ UNCHANGED << pages, marketData, savedUrls, errorUrls, maxConcurrency, stats,
                    agg, writeVars, call, site, tracked, driver >>

\* The queue is drained: the stale rows are deactivated, or are left as they
\* are when the UPDATE fails (deactivatePagesByIds catches and returns 0).
ScrapeEnd ==
    /\ pc = "crawl"
    /\ queue = {}
    /\ LET stalePageIds == MapValues(nonScrapedPageMap)
       IN \/ pages' = deactivatePagesByIds(pages, stalePageIds)
          \/ /\ stalePageIds # {}
             /\ pages' = pages
    /\ pc' = "idle"
    /\ lastOp' = "scrape"
    /\ CrawlIdle
    /\ UNCHANGED << marketData, savedUrls, errorUrls, maxConcurrency, stats, agg,
                    writeVars, call, site, tracked, driver >>

\* --------------------------------------------------- aggregateScrapedData

\* What the extractor's LLM can answer; every object carries a key that is no
\* category, and a value may need trimming or be no string.
ExtractorContents ==
    { Content("garbage", EmptyObj),
      Content("bare", Bool(TRUE)),
      Content("embedded", Arr),
      Content("embedded", Obj([k \in {"guest_rooms", "other", BogusKey} |->
                  IF k = "guest_rooms" THEN Str(<<SP, "s1">>)
                  ELSE IF k = "other" THEN Str(EMPTY) ELSE Str(<<"x">>)])),
      Content("embedded", Obj([k \in {"guest_rooms", "other", BogusKey} |->
                  IF k = "guest_rooms" THEN Num ELSE Str(<<"s1">>)])),
      Content("embedded", Obj([k \in {"guest_rooms", "other", BogusKey} |->
                  Str(<<"s1">>)])) }

\* What the refiner's LLM can answer (completion.choices[0].message.content).
RefinerContents == { NULL, NA, <<"r1", LF>>, <<"r2">> }

\* What the adjudicator's LLM request can do.
AdjudicatorOutcomes ==
    { Throws,
      Returns(Content("garbage", EmptyObj)),
      Returns(Content("embedded",
          Obj([k \in {"isUpdate", "mergedText"} |->
                  IF k = "isUpdate" THEN Bool(TRUE) ELSE Str(<<"r1">>)]))),
      Returns(Content("embedded",
          Obj([k \in {"isUpdate", "mergedText"} |->
                  IF k = "isUpdate" THEN Bool(TRUE) ELSE Str(EMPTY)]))),
      Returns(Content("embedded",
          Obj([k \in {"isUpdate", "mergedText"} |->
                  IF k = "isUpdate" THEN Bool(FALSE) ELSE Str(<<"r1">>)]))),
      Returns(Content("embedded",
          Obj([k \in {"isUpdate", "mergedText"} |->
                  IF k = "isUpdate" THEN Str(<<"true">>) ELSE Str(<<"r1">>)]))) }

\* What the structurer's LLM request (textToJsonByLLM) can do.
StructurerOutcomes ==
    { Throws,
      Returns(Content("embedded", Arr)),
      Returns(Content("embedded", Obj([k \in {"loyalty"} |-> Str(<<"bonvoy">>)]))) }

PageSnapshot(table, id) ==
    [id |-> id, page_url |-> table[id].page_url, checksum |-> table[id].checksum]

\* if (!hotelUuid) throw ...; const pages = await getActiveMarkdownPages(...);
\* if (!pages.length) return null; fieldBuckets = one empty bucket per category.
AggStart ==
    /\ pc = "idle"
    /\ \E queryOk \in BOOLEAN :
          LET ids == getActiveMarkdownPages(pages, Hotel, queryOk)
              prevAgg == lastOp = "aggregate"
              fresh == [AggIdle EXCEPT
                          !.prev = IF lastOp \in {"scrape", "aggregate"}
                                   THEN lastOp ELSE "other",
                          !.prevAllMarked =
                              prevAgg /\ ~agg.queryFailed /\ agg.unmarked = {},
                          !.prevSelected = prevAgg /\ agg.selected,
                          !.queryFailed = ~queryOk,
                          !.selected = (ids # << >>)]
          IN IF ids = << >>
             THEN /\ agg' = fresh
                  /\ pc' = "idle"
                  /\ lastOp' = "aggregate"
             ELSE /\ agg' = [fresh EXCEPT
                               !.pagesList = [i \in DOMAIN ids |-> PageSnapshot(pages, ids[i])],
                               !.idx = 1,
                               !.fieldBuckets = [name \in FieldNames(CATEGORY_FIELDS) |-> << >>]]
                  /\ pc' = "extract"
                  /\ lastOp' = "none"
    /\ savedUrls' = {}
    /\ errorUrls' = {}
    /\ stats' = NoStats
    /\ lastWriteKeys' = {}
    /\ UNCHANGED << pages, marketData, crawlLocals, maxConcurrency, writtenKeys, call,
                    site, tracked, driver >>

AfterPage == IF agg.idx = Len(agg.pagesList) THEN "refine" ELSE "extract"

\* The per-page loop's locals after the page at idx: the list is dropped
\* after its last page.
NextPage(a) ==
    IF a.idx = Len(a.pagesList)
    THEN [a EXCEPT !.idx = 0, !.pagesList = << >>, !.fieldIdx = 1]
    ELSE [a EXCEPT !.idx = @ + 1]

\* aggregateScrapedData rejects (a refiner request, the load of the record or
\* the upsert threw).
AggThrew ==
    /\ pc' = "idle"
    /\ lastOp' = "aggregate_threw"
    /\ agg' = AggReturned(agg)
    /\ UNCHANGED << pages, marketData, crawlVars, writeVars, call, site, tracked, driver >>

\* A per-page loop without its try/catch: a throwing extractor ends the run.
ExtractPageThrowsAborts ==
    /\ pc = "extract"
    /\ AggThrew

\* A per-page loop that asks again for a page whose extractor request threw.
ExtractPageThrowsRetries ==
    /\ pc = "extract"
    /\ LET page == agg.pagesList[agg.idx]
       IN agg' = [agg EXCEPT !.unmarked = @ \cup {page.id}, !.extractorThrew = TRUE]
    /\ pc' = "extract"
    /\ UNCHANGED << pages, marketData, lastOp, crawlVars, writeVars, call, site, tracked,
                    driver >>

\* A per-page loop that marks a page whose extractor request threw.
ExtractPageThrowsMarks ==
    /\ pc = "extract"
    /\ LET page == agg.pagesList[agg.idx]
       IN /\ agg' = NextPage([agg EXCEPT !.unmarked = @ \cup {page.id},
                                         !.extractorThrew = TRUE])
          /\ pages' = markLLMInput(pages, page.id, page.checksum, JSONstringify(EmptyObj))
    /\ pc' = AfterPage
    /\ UNCHANGED << marketData, lastOp, crawlVars, writeVars, call, site, tracked, driver >>

\* One iteration of the per-page loop whose extractor request throws: the
\* catch logs, nothing is marked.
ExtractPageThrows ==
    /\ pc = "extract"
    /\ LET page == agg.pagesList[agg.idx]
       IN agg' = NextPage([agg EXCEPT !.unmarked = @ \cup {page.id},
                                      !.extractorThrew = TRUE])
    /\ pc' = AfterPage
    /\ UNCHANGED << pages, marketData, lastOp, crawlVars, writeVars, call, site, tracked, driver >>

\* One iteration of the per-page loop: extractFieldsFromPage, the snippets into
\* the buckets, markLLMInput (which swallows a failed UPDATE).
ExtractPage ==
    /\ pc = "extract"
    /\ \E content \in ExtractorContents, markOk \in BOOLEAN :
          LET page == agg.pagesList[agg.idx]
              extracted == extractFieldsFromPage(Returns(content))
          IN /\ agg' = NextPage([agg EXCEPT
                          !.fieldBuckets = CollectSnippets(@, extracted, page.page_url),
                          !.unmarked = IF markOk THEN @ ELSE @ \cup {page.id}])
             /\ pages' = IF markOk
                         THEN markLLMInput(pages, page.id, page.checksum,
                                           JSONstringify(extracted))
                         ELSE pages
    /\ pc' = AfterPage
    /\ UNCHANGED << marketData, lastOp, crawlVars, writeVars, call, site, tracked, driver >>

\* newData[field.name] = await mergeAndRefineSnippets(...) whose request throws
RefineFieldThrows ==
    /\ pc = "refine"
    /\ RefinerInput(agg.fieldBuckets[CATEGORY_FIELDS[agg.fieldIdx]]) # << >>
    /\ AggThrew

\* newData[field.name] = await mergeAndRefineSnippets(field.name, bucket);
\* a bucket is not read again once its category is refined.
RefineField ==
    /\ pc = "refine"
    /\ \E content \in RefinerContents :
          LET name == CATEGORY_FIELDS[agg.fieldIdx]
              last == agg.fieldIdx = Len(CATEGORY_FIELDS)
              refined == (name :> RefinedValue(agg.fieldBuckets[name], content))
                            @@ agg.newData
          IN /\ agg' = [agg EXCEPT
                          !.newData = refined,
                          !.fieldIdx = IF last THEN 0 ELSE @ + 1,
                          !.fieldBuckets = MapDelete(@, name)]
             /\ pc' = IF last THEN "load" ELSE "refine"
    /\ UNCHANGED << pages, marketData, lastOp, crawlVars, writeVars, call, site, tracked, driver >>

\* MarketDataService.getMarketDataByUuid rejects
LoadExistingThrows ==
    /\ pc = "load"
    /\ AggThrew

\* const existingData = await getMarketDataByUuid(hotelUuid);
\* if (existingData) { merge loop } else { mergedData = newData }
LoadExisting ==
    /\ pc = "load"
    /\ IF marketData.exists
       THEN /\ agg' = [agg EXCEPT !.existingData = marketData, !.fieldIdx = 1,
                                  !.mergedData = << >>]
            /\ pc' = "merge"
       ELSE /\ agg' = [agg EXCEPT !.existingData = NoRecord,
                                  !.mergedData = agg.newData,
                                  !.newData = << >>]
            /\ pc' = "write"
    /\ UNCHANGED << pages, marketData, lastOp, crawlVars, writeVars, call, site, tracked, driver >>

\* Object.keys(newData): the categories, in the order the refine loop set them.
KeysOfNewData == CATEGORY_FIELDS

\* A merge loop that takes every text the adjudicator returns.
AdjudicatedAlways(mergedData, fieldName, r) == (fieldName :> r.mergedText) @@ mergedData

\* if (isUpdate && mergedText) mergedData[fieldName] = mergedText;
\* DEBUG2_LOGS[fieldName] = {isUpdate, ..., mergedText}
Adjudicated(mergedData, fieldName, r) ==
    IF r.isUpdate /\ r.mergedText # EMPTY
    THEN (fieldName :> r.mergedText) @@ mergedData
    ELSE mergedData

\* One iteration of the merge loop; newData[fieldName] is not read after it.
MergeField ==
    /\ pc = "merge"
    /\ LET fieldName == KeysOfNewData[agg.fieldIdx]
           new == agg.newData[fieldName]
           old == Column(agg.existingData, fieldName)
           last == agg.fieldIdx = Len(KeysOfNewData)
           step == [agg EXCEPT !.fieldIdx = IF last THEN 0 ELSE @ + 1,
                               !.newData = MapDelete(@, fieldName)]
       IN IF Falsy(new) \/ new = NA
          THEN agg' = step
          ELSE IF Falsy(old) \/ old = NA
          THEN agg' = [step EXCEPT !.mergedData = (fieldName :> new) @@ @]
          ELSE IF old = new
          THEN agg' = step
          ELSE \E llm \in AdjudicatorOutcomes :
                 LET r == mergeTextsByLLM(old, new, llm)
                 IN agg' = [step EXCEPT
                              !.adjRequests = @ + r.requests,
                              !.adjAnswered = @ \/ (r.requests = 1 /\ ~llm.throws),
                              !.mergedData = Adjudicated(@, fieldName, r),
                              !.DEBUG2_LOGS =
                                  (fieldName :> [isUpdate |-> r.isUpdate,
                                                 mergedText |-> r.mergedText]) @@ @]
    /\ pc' = IF agg.fieldIdx = Len(KeysOfNewData) THEN "write" ELSE "merge"
    /\ UNCHANGED << pages, marketData, lastOp, crawlVars, writeVars, call, site, tracked, driver >>

\* Object.prototype.hasOwnProperty.call(mergedData, fieldName)
isFieldUpdated(fieldName, mergedData) == fieldName \in DOMAIN mergedData

FirstTruthy(a, b) == IF ~Falsy(a) THEN a ELSE IF ~Falsy(b) THEN b ELSE EMPTY

MapGet(map, key) == IF key \in DOMAIN map THEN map[key] ELSE NULL

\* A tail that never computes other_structured.
WithOtherStructuredNever(mergedData, existingData, llm) == mergedData

\* if (otherUpdated) { sourceOther = mergedData.other || existingData?.other || '';
\*   mergedData.other_structured = JSON.stringify(await textToJsonByLLM(sourceOther)) }
WithOtherStructured(mergedData, existingData, llm) ==
    IF isFieldUpdated("other", mergedData)
    THEN LET sourceOther == FirstTruthy(MapGet(mergedData, "other"),
                                        Column(existingData, "other"))
             other_json == textToJsonByLLM(sourceOther, llm)
         IN (OTHER_STRUCTURED :> JSONstringify(other_json)) @@ mergedData
    ELSE mergedData

\* The tail of aggregateScrapedData: other_structured, the guardrail, the upsert.
WriteRecord ==
    /\ pc = "write"
    /\ \E llm \in StructurerOutcomes :
          LET payload == WithOtherStructured(agg.mergedData, agg.existingData, llm)
              updatedFieldsCount == Cardinality(DOMAIN payload)
          IN IF updatedFieldsCount = 0
             THEN /\ agg' = AggReturned(agg)
                  /\ UNCHANGED << marketData, writeVars >>
             ELSE /\ agg' = AggReturned([agg EXCEPT !.upserts = @ + 1])
                  /\ marketData' = upsertMarketData(marketData, payload)
                  /\ lastWriteKeys' = DOMAIN payload
                  /\ writtenKeys' = writtenKeys \cup DOMAIN payload
    /\ pc' = "idle"
    /\ lastOp' = "aggregate"
    /\ UNCHANGED << pages, crawlVars, call, site, tracked, driver >>

\* MarketDataService.upsertMarketData rejects: nothing is written.
WriteRecordThrows ==
    /\ pc = "write"
    /\ \E llm \in StructurerOutcomes :
          Cardinality(DOMAIN WithOtherStructured(agg.mergedData, agg.existingData, llm)) # 0
    /\ AggThrew

\* ------------------------------------------------------ the specification

Init ==
    /\ pages = << >>
    /\ marketData = NoRecord
    /\ pc = "idle"
    /\ lastOp = "none"
    /\ nonScrapedPageMap = << >>
    /\ visited = {}
    /\ queue = {}
    /\ enqueued = {}
    /\ maxDepth = Infinity
    /\ savedUrls = {}
    /\ errorUrls = {}
    /\ maxConcurrency = DefaultMaxConcurrency
    /\ stats = NoStats
    /\ agg = AggIdle
    /\ lastWriteKeys = {}
    /\ writtenKeys = {}
    /\ site = SiteOfTwo
    /\ tracked = {}
    /\ driver = NoDriver
    /\ call = NoCall

Next ==
    \/ ScrapeStart
    \/ HandlerEnters
    \/ requestHandler
    \/ ScrapeThrows
    \/ ScrapeEnd
    \/ AggStart
    \/ ExtractPageThrows
    \/ ExtractPage
    \/ RefineFieldThrows
    \/ RefineField
    \/ LoadExistingThrows
    \/ LoadExisting
    \/ MergeField
    \/ WriteRecord
    \/ WriteRecordThrows

Spec == Init /\ [][Next]_vars

\* ------------------------------------- one call of getActiveMarkdownPages

OtherHotel == "h2"

\* The checksums of the two texts a page of the model can hold.
Checksums == {computeChecksum(normalizeMarkdown(raw)) :
                 raw \in {r \in MarkdownRaws : normalizeMarkdown(r) # EMPTY}}

\* The rows hotel_page_data can hold: of this or another hotel, active or not,
\* with markdown (NULL and '' in rows written before the column was filled),
\* a checksum, and the checksum of the last LLM input, NULL at first.
QueryRows(url) ==
    [hotel_uuid : {Hotel, OtherHotel}, page_url : {url}, active : {0, 1},
     markdown : {NULL, EMPTY, <<"bar">>}, checksum : Checksums,
     llm_input_checksum : {NULL} \cup Checksums,
     depth : {Untracked}, markdown_prev : {Untracked},
     is_checksum_updated : {Untracked}, llm_output : {Untracked}]

InitQuery ==
    /\ pages \in {<<r1, r2>> : r1 \in QueryRows("u1"), r2 \in QueryRows("u2")}
    /\ marketData = NoRecord
    /\ pc = "idle"
    /\ lastOp = "none"
    /\ nonScrapedPageMap = << >>
    /\ visited = {}
    /\ queue = {}
    /\ enqueued = {}
    /\ maxDepth = Infinity
    /\ savedUrls = {}
    /\ errorUrls = {}
    /\ maxConcurrency = DefaultMaxConcurrency
    /\ stats = NoStats
    /\ agg = AggIdle
    /\ lastWriteKeys = {}
    /\ writtenKeys = {}
    /\ site = SiteOfTwo
    /\ tracked = {}
    /\ driver = NoDriver
    /\ call = NoCall

\* const pages = await getActiveMarkdownPages(hotelUuid)
QueryCall ==
    /\ call = NoCall
    /\ \E queryOk \in BOOLEAN :
          call' = [op |-> "getActiveMarkdownPages", hotelUuid |-> Hotel,
                   queryOk |-> queryOk,
                   result |-> getActiveMarkdownPages(pages, Hotel, queryOk)]
    /\ UNCHANGED << pages, marketData, pc, lastOp, crawlVars, agg, writeVars, site, tracked,
                    driver >>

NextQuery == QueryCall

SpecQuery == InitQuery /\ [][NextQuery]_vars

\* -------------------------------------------- one call of mergeTextsByLLM

\* The texts mergeTextsByLLM can be given: a column of the record (NULL, '',
\* a text) or a refined value, with or without surrounding blanks.
MergeTexts == { NULL, EMPTY, <<SP>>, <<"r1">>, <<SP, "r1", LF>>, <<"r2">> }

InitMerge ==
    /\ pages = << >>
    /\ marketData = NoRecord
    /\ pc = "idle"
    /\ lastOp = "none"
    /\ nonScrapedPageMap = << >>
    /\ visited = {}
    /\ queue = {}
    /\ enqueued = {}
    /\ maxDepth = Infinity
    /\ savedUrls = {}
    /\ errorUrls = {}
    /\ maxConcurrency = DefaultMaxConcurrency
    /\ stats = NoStats
    /\ agg = AggIdle
    /\ lastWriteKeys = {}
    /\ writtenKeys = {}
    /\ site = SiteOfTwo
    /\ tracked = {}
    /\ driver = NoDriver
    /\ call \in [op : {"mergeTextsByLLM"}, existingText : MergeTexts,
                 newText : MergeTexts, returned : {FALSE}]

\* await AIService.mergeTextsByLLM(existingText, newText)
MergeCall ==
    /\ call.op = "mergeTextsByLLM"
    /\ ~call.returned
    /\ \E llm \in AdjudicatorOutcomes :
          call' = [op |-> "mergeTextsByLLM", existingText |-> call.existingText,
                   newText |-> call.newText, returned |-> TRUE, llm |-> llm,
                   result |-> mergeTextsByLLM(call.existingText, call.newText, llm)]
    /\ UNCHANGED << pages, marketData, pc, lastOp, crawlVars, agg, writeVars, site, tracked,
                    driver >>

NextMerge == MergeCall

SpecMerge == InitMerge /\ [][NextMerge]_vars

\* ------------------------------------------ aggregateScrapedData on its own

\* The tables a crawl that saved one page, or two, leaves for the hotel.
AggTables ==
    LET one == InsertPage(<< >>, Hotel, "u1", <<"bar">>, computeChecksum(<<"bar">>), 0)
    IN { one,
         InsertPage(one, Hotel, "u2", <<"cafe_nfc">>, computeChecksum(<<"cafe_nfc">>), 1) }

\* The records the hotel can have: none, or the one an earlier run wrote when
\* there was none (every category, and other_structured).
AggRecords ==
    {NoRecord} \cup
    { upsertMarketData(NoRecord,
          [k \in FieldNames(CATEGORY_FIELDS) \cup {OTHER_STRUCTURED} |->
              IF k = "guest_rooms" THEN g
              ELSE IF k = "other" THEN o ELSE JSONstringify(EmptyObj)]) :
        g \in {EMPTY, NA, <<"r1">>, <<"r2">>}, o \in {EMPTY, <<"r2">>} }

InitAggregate ==
    /\ tracked = {"llm_output"}
    /\ pages \in AggTables
    /\ marketData \in AggRecords
    /\ pc = "idle"
    /\ lastOp = "none"
    /\ nonScrapedPageMap = << >>
    /\ visited = {}
    /\ queue = {}
    /\ enqueued = {}
    /\ maxDepth = Infinity
    /\ savedUrls = {}
    /\ errorUrls = {}
    /\ maxConcurrency = DefaultMaxConcurrency
    /\ stats = NoStats
    /\ agg = AggIdle
    /\ lastWriteKeys = {}
    /\ writtenKeys = {}
    /\ site = SiteOfTwo
    /\ driver = NoDriver
    /\ call = NoCall

NextAggregate ==
    \/ AggStart
    \/ ExtractPageThrows
    \/ ExtractPage
    \/ RefineFieldThrows
    \/ RefineField
    \/ LoadExistingThrows
    \/ LoadExisting
    \/ MergeField
    \/ WriteRecord
    \/ WriteRecordThrows

SpecAggregate == InitAggregate /\ [][NextAggregate]_vars

\* --------------------------------------------------------------- main

\* The longest list of active hotels looked at.
MaxHotels == 3

\* HotelService.getActiveHotels(): lists of hotels, each with or without a
\* hotel_url.
HotelLists ==
    UNION { [1..n -> [hotel_url : {"", SeedUrl}]] : n \in 0..MaxHotels }

\* UNIT_TEST and UNIT_TEST_MODULE of the environment.
Environments == [UNIT_TEST : BOOLEAN, UNIT_TEST_MODULE : {"", "scrape", "aggregate"}]

\* main before its first statement: the environment, what the database
\* holds, per hotel of the list, what became of the call of scrapeHotel
\* and of aggregateScrapedData ("none": not called), and where the handler of
\* SIGINT / SIGTERM is ("none": no signal yet).
MainEntered(env, hotels) ==
    [pc |-> "start", env |-> env, hotels |-> hotels, i |-> 0,
     scrapedSuccess |-> FALSE, signal |-> "none",
     scrape |-> [k \in DOMAIN hotels |-> "none"],
     aggregate |-> [k \in DOMAIN hotels |-> "none"]]

\* const shouldRunScrape = !isUnitTest || unitTestModule === 'scrape'
shouldRunScrape(env) == ~env.UNIT_TEST \/ env.UNIT_TEST_MODULE = "scrape"

\* const shouldRunAggregate = !isUnitTest || unitTestModule === 'aggregate'
shouldRunAggregate(env) == ~env.UNIT_TEST \/ env.UNIT_TEST_MODULE = "aggregate"

\* A driver that aggregates whatever became of the scrape.
RunsAggregateAlways(d) == shouldRunAggregate(d.env)

\* if (shouldRunAggregate && scrapedSuccess)
RunsAggregate(d) == shouldRunAggregate(d.env) /\ d.scrapedSuccess

\* The end of an iteration: the 3 s delay and the next hotel, or the end of
\* the loop.
NextHotel(d) ==
    IF d.i < Len(d.hotels)
    THEN [d EXCEPT !.pc = "top", !.i = @ + 1, !.scrapedSuccess = FALSE]
    ELSE [d EXCEPT !.pc = "done", !.scrapedSuccess = FALSE]

\* After the scrape step of an iteration: aggregateScrapedData is called, or
\* the iteration ends.
AfterScrape(d) ==
    IF RunsAggregate(d)
    THEN [d EXCEPT !.pc = "aggregate", !.aggregate[d.i] = "running"]
    ELSE NextHotel(d)

\* The process has not exited on a signal.
ProcessRuns == driver.signal # "exited"

\* main and what it awaits are still at work.
MainAtWork == driver.pc \in {"start", "top", "scrape", "aggregate"}

\* main up to its loop: the check of UNIT_TEST_MODULE (main rejects),
\* testConnection (process.exit(1)), getActiveHotels (which may throw into
\* the catch of main), the return when there is no hotel.
MainStarts ==
    /\ ProcessRuns
    /\ driver.pc = "start"
    /\ \E isConnected \in BOOLEAN, hotelsOk \in BOOLEAN :
          driver' =
             IF driver.env.UNIT_TEST /\ driver.env.UNIT_TEST_MODULE = ""
             THEN [driver EXCEPT !.pc = "rejected"]
             ELSE IF ~isConnected THEN [driver EXCEPT !.pc = "exit"]
             ELSE IF ~hotelsOk THEN [driver EXCEPT !.pc = "fatal"]
             ELSE IF Len(driver.hotels) = 0 THEN [driver EXCEPT !.pc = "done"]
             ELSE [driver EXCEPT !.pc = "top", !.i = 1]
    /\ UNCHANGED << pages, marketData, pc, lastOp, crawlVars, agg, writeVars, call,
                    site, tracked >>

\* The head of an iteration: a hotel without hotel_url is skipped; scrapeHotel
\* is called, or, when the scrape step is switched off, scrapedSuccess = true.
MainHotel ==
    /\ ProcessRuns
    /\ driver.pc = "top"
    /\ driver' =
          IF driver.hotels[driver.i].hotel_url = ""
          THEN NextHotel(driver)
          ELSE IF shouldRunScrape(driver.env)
          THEN [driver EXCEPT !.pc = "scrape", !.scrape[driver.i] = "running"]
          ELSE AfterScrape([driver EXCEPT !.scrapedSuccess = TRUE])
    /\ UNCHANGED << pages, marketData, pc, lastOp, crawlVars, agg, writeVars, call,
                    site, tracked >>

\* await scrapeHotel(...) resolves: scrapedSuccess = true
MainScrapeReturned ==
    /\ ProcessRuns
    /\ driver.pc = "scrape"
    /\ driver' = AfterScrape([driver EXCEPT !.scrape[driver.i] = "returned",
                                            !.scrapedSuccess = TRUE])
    /\ UNCHANGED << pages, marketData, pc, lastOp, crawlVars, agg, writeVars, call,
                    site, tracked >>

\* await scrapeHotel(...) rejects: the inner catch logs
MainScrapeThrew ==
    /\ ProcessRuns
    /\ driver.pc = "scrape"
    /\ driver' = AfterScrape([driver EXCEPT !.scrape[driver.i] = "threw"])
    /\ UNCHANGED << pages, marketData, pc, lastOp, crawlVars, agg, writeVars, call,
                    site, tracked >>

\* await aggregateScrapedData(...) resolves
MainAggregateReturned ==
    /\ ProcessRuns
    /\ driver.pc = "aggregate"
    /\ driver' = NextHotel([driver EXCEPT !.aggregate[driver.i] = "returned"])
    /\ UNCHANGED << pages, marketData, pc, lastOp, crawlVars, agg, writeVars, call,
                    site, tracked >>

\* await aggregateScrapedData(...) rejects: the await is in no inner try, the
\* catch of main logs "Fatal error" and main ends.
MainAggregateThrew ==
    /\ ProcessRuns
    /\ driver.pc = "aggregate"
    /\ driver' = [driver EXCEPT !.pc = "fatal", !.aggregate[driver.i] = "threw"]
    /\ UNCHANGED << pages, marketData, pc, lastOp, crawlVars, agg, writeVars, call,
                    site, tracked >>

\* process.on('SIGINT' | 'SIGTERM'): the handler logs and calls closePool()
SignalReceived ==
    /\ MainAtWork
    /\ driver.signal = "none"
    /\ driver' = [driver EXCEPT !.signal = "closing"]
    /\ UNCHANGED << pages, marketData, pc, lastOp, crawlVars, agg, writeVars, call,
                    site, tracked >>

\* await closePool() resolves: process.exit(0)
SignalExits ==
    /\ driver.signal = "closing"
    /\ driver' = [driver EXCEPT !.signal = "exited"]
    /\ UNCHANGED << pages, marketData, pc, lastOp, crawlVars, agg, writeVars, call,
                    site, tracked >>

InitDriver ==
    /\ pages = << >>
    /\ marketData = NoRecord
    /\ pc = "idle"
    /\ lastOp = "none"
    /\ nonScrapedPageMap = << >>
    /\ visited = {}
    /\ queue = {}
    /\ enqueued = {}
    /\ maxDepth = Infinity
    /\ savedUrls = {}
    /\ errorUrls = {}
    /\ maxConcurrency = DefaultMaxConcurrency
    /\ stats = NoStats
    /\ agg = AggIdle
    /\ lastWriteKeys = {}
    /\ writtenKeys = {}
    /\ site = SiteOfTwo
    /\ tracked = {}
    /\ call = NoCall
    /\ driver \in {MainEntered(env, hotels) : env \in Environments, hotels \in HotelLists}

NextDriver ==
    \/ MainStarts
    \/ MainHotel
    \/ MainScrapeReturned
    \/ MainScrapeThrew
    \/ MainAggregateReturned
    \/ MainAggregateThrew
    \/ SignalReceived
    \/ SignalExits

SpecDriver == InitDriver /\ [][NextDriver]_vars

\* --------------------------------------------------- scrapeHotel on its own

\* The crawls of a site of three pages, with one handler at a time or with
\* the default concurrency.
InitCrawl ==
    /\ pages = << >>
    /\ marketData = NoRecord
    /\ pc = "idle"
    /\ lastOp = "none"
    /\ nonScrapedPageMap = << >>
    /\ visited = {}
    /\ queue = {}
    /\ enqueued = {}
    /\ maxDepth = Infinity
    /\ savedUrls = {}
    /\ errorUrls = {}
    /\ maxConcurrency \in {1, DefaultMaxConcurrency}
    /\ stats = NoStats
    /\ agg = AggIdle
    /\ lastWriteKeys = {}
    /\ writtenKeys = {}
    /\ site = SiteOfThree
    /\ tracked = {}
    /\ driver = NoDriver
    /\ call = NoCall

NextCrawl ==
    \/ ScrapeStart
    \/ HandlerEnters
    \/ requestHandler
    \/ ScrapeThrows
    \/ ScrapeEnd

SpecCrawl == InitCrawl /\ [][NextCrawl]_vars

\* --------------------------------- crawl runs with the columns of a save

\* Crawl runs of the site of two URLs in which the depth, markdown_prev and
\* is_checksum_updated columns of the rows are followed.
InitRescrape ==
    /\ tracked = {"depth", "markdown_prev", "is_checksum_updated"}
    /\ pages = << >>
    /\ marketData = NoRecord
    /\ pc = "idle"
    /\ lastOp = "none"
    /\ nonScrapedPageMap = << >>
    /\ visited = {}
    /\ queue = {}
    /\ enqueued = {}
    /\ maxDepth = Infinity
    /\ savedUrls = {}
    /\ errorUrls = {}
    /\ maxConcurrency \in {1, 2}
    /\ stats = NoStats
    /\ agg = AggIdle
    /\ lastWriteKeys = {}
    /\ writtenKeys = {}
    /\ site = SiteOfTwo
    /\ driver = NoDriver
    /\ call = NoCall

SpecRescrape == InitRescrape /\ [][NextCrawl]_vars

\* ------------------------------------------- crawl runs that must end
\*
\* Crawl runs of the site of two URLs in which the crawler can fail a request
\* and retry it. The crawler starts a handler whenever one of its
\* maxConcurrency slots is free and a request waits, every await of a handler
\* is answered or cut off by requestHandlerTimeoutSecs, and crawler.run
\* resolves once the queue is drained.

InitRetry ==
    /\ tracked = {}
    /\ pages = << >>
    /\ marketData = NoRecord
    /\ pc = "idle"
    /\ lastOp = "none"
    /\ nonScrapedPageMap = << >>
    /\ visited = {}
    /\ queue = {}
    /\ enqueued = {}
    /\ maxDepth = Infinity
    /\ savedUrls = {}
    /\ errorUrls = {}
    /\ maxConcurrency \in {1, 2}
    /\ stats = NoStats
    /\ agg = AggIdle
    /\ lastWriteKeys = {}
    /\ writtenKeys = {}
    /\ site = SiteOfTwo
    /\ driver = NoDriver
    /\ call = NoCall

NextRetry ==
    \/ ScrapeStart
    \/ HandlerEnters
    \/ RequestFails
    \/ requestHandler
    \/ ScrapeThrows
    \/ ScrapeEnd

FairCrawl ==
    /\ WF_vars(HandlerEnters)
    /\ WF_vars(requestHandler)
    /\ WF_vars(ScrapeEnd)

SpecRetry == InitRetry /\ [][NextRetry]_vars /\ FairCrawl

\* ------------------------------------- calls of saveScrapedPage together
\*
\* Handlers that run together call saveScrapedPage for the same pair
\* (hotel_uuid, page_url): each call is "called" until its SELECT has
\* answered, "looked" until its UPDATE or INSERT is done, and then
\* "returned", or "threw" when an argument is rejected or a statement fails.
\* The markdown_prev and is_checksum_updated columns are followed.

MaxSaves == 2

SaveIdle ==
    [stage |-> "idle", markdown |-> EMPTY, checksum |-> EMPTY, lookup |-> NoLookup]

InitSave ==
    /\ tracked = {"markdown_prev", "is_checksum_updated"}
    /\ pages = << >>
    /\ marketData = NoRecord
    /\ pc = "idle"
    /\ lastOp = "none"
    /\ nonScrapedPageMap = << >>
    /\ visited = {}
    /\ queue = {}
    /\ enqueued = {}
    /\ maxDepth = Infinity
    /\ savedUrls = {}
    /\ errorUrls = {}
    /\ maxConcurrency = DefaultMaxConcurrency
    /\ stats = NoStats
    /\ agg = AggIdle
    /\ lastWriteKeys = {}
    /\ writtenKeys = {}
    /\ site = SiteOfTwo
    /\ driver = NoDriver
    /\ call = [op |-> "saveScrapedPage", saves |-> [k \in 1..MaxSaves |-> SaveIdle]]

\* saveScrapedPage(hotelUuid, url, html, htmlRaw, markdown, checksum, depth)
\* up to its SELECT: an argument that is rejected throws.
SaveCalled ==
    /\ call.op = "saveScrapedPage"
    /\ \E k \in 1..MaxSaves, raw \in MarkdownRaws :
          LET markdown == normalizeMarkdown(raw)
              checksum == computeChecksum(markdown)
          IN /\ call.saves[k].stage \in {"idle", "returned", "threw"}
             /\ call' = [call EXCEPT !.saves[k] =
                           [stage |-> IF SaveInputsValid(markdown, checksum)
                                      THEN "called" ELSE "threw",
                            markdown |-> markdown, checksum |-> checksum,
                            lookup |-> NoLookup]]
    /\ UNCHANGED othersThanCall

\* const found = await executeQuery(checkQuery, [hotelUuid, url])
SaveLooksUp ==
    /\ call.op = "saveScrapedPage"
    /\ \E k \in 1..MaxSaves, lookup \in LookupPage(pages, Hotel, SeedUrl) :
          /\ call.saves[k].stage = "called"
          /\ call' = [call EXCEPT !.saves[k].stage = "looked",
                                  !.saves[k].lookup = lookup]
    /\ UNCHANGED othersThanCall

\* The UPDATE or the INSERT, and the return.
SaveWrites ==
    /\ call.op = "saveScrapedPage"
    /\ \E k \in 1..MaxSaves :
          LET save == call.saves[k]
          IN /\ save.stage = "looked"
             /\ pages' = WritePage(pages, save.lookup, Hotel, SeedUrl, save.markdown,
                                   save.checksum, 0)
             /\ call' = [call EXCEPT !.saves[k].stage = "returned"]
    /\ UNCHANGED << marketData, pc, lastOp, crawlVars, agg, writeVars, site, tracked,
                    driver >>

\* A statement fails: executeQuery rejects, "Database save failed" is thrown.
SaveStatementFails ==
    /\ call.op = "saveScrapedPage"
    /\ \E k \in 1..MaxSaves :
          /\ call.saves[k].stage \in {"called", "looked"}
          /\ call' = [call EXCEPT !.saves[k].stage = "threw"]
    /\ UNCHANGED othersThanCall

NextSave ==
    \/ SaveCalled
    \/ SaveLooksUp
    \/ SaveWrites
    \/ SaveStatementFails

SpecSave == InitSave /\ [][NextSave]_vars

\* ------------------------------------------- one call of waitForDomToSettle

\* Times are in ticks: how long the signature must stay unchanged, the upper
\* bound of the wait, and the least interval between two signature
\* computations (quietMs, timeoutMs, minSigIntervalMs).
QuietMs == 3
TimeoutMs == 6
MinSigIntervalMs == 2

\* Date.now() when waitForDomToSettle is called: later than any of the
\* intervals after the epoch.
SettleStart == QuietMs + MinSigIntervalMs

CharCode(c) == IF c = "a" THEN 97 ELSE IF c = "b" THEN 98 ELSE 32

\* domStabilityHash: h = 5381; h = ((h << 5) + h) + charCode; return h >>> 0.
\* Of the 32 bits of the hash the low 16 are kept, which tell the texts of
\* the model apart.
RECURSIVE djb2(_, _)
djb2(h, str) ==
    IF str = << >> THEN h % 65536
    ELSE djb2((33 * h + CharCode(Head(str))) % 65536, Tail(str))

\* replace(/\s+/g, ' '): a run of blanks becomes one blank
RECURSIVE CollapseBlanks(_)
CollapseBlanks(s) ==
    IF Len(s) < 2 THEN s
    ELSE IF IsBlankToken(s[1]) /\ IsBlankToken(s[2]) THEN CollapseBlanks(Tail(s))
    ELSE <<s[1]>> \o CollapseBlanks(Tail(s))

\* `${elCount}|${text.length}|${checksum}`
domSignature(dom) ==
    LET text == Trim(CollapseBlanks(OrEmpty(dom.innerText)))
    IN << dom.elCount, Len(text), djb2(5381, text) >>

\* The documents the page goes through while it loads: a first one, the same
\* with more blank text, another text, one more element.
Doms ==
    { [elCount |-> 1, innerText |-> <<"a">>],
      [elCount |-> 1, innerText |-> <<"a", SP, SP>>],
      [elCount |-> 1, innerText |-> <<"b">>],
      [elCount |-> 2, innerText |-> <<"a">>] }

\* window.__domStability, before the first evaluation of the predicate
NoStability == [exists |-> FALSE, signature |-> << >>, lastChange |-> 0, lastSigAt |-> 0]

\* A predicate that does not restart the quiet window when the signature changed.
domStabilityPredicateNoRestart(stability, dom, now) ==
    LET st == IF stability.exists THEN stability
              ELSE [exists |-> TRUE, signature |-> << >>, lastChange |-> now,
                    lastSigAt |-> 0]
    IN IF now - st.lastSigAt < MinSigIntervalMs
       THEN [st |-> st, computed |-> FALSE, result |-> now - st.lastChange >= QuietMs]
       ELSE [st |-> [st EXCEPT !.lastSigAt = now, !.signature = domSignature(dom)],
             computed |-> TRUE,
             result |-> now - st.lastChange >= QuietMs]

\* The predicate waitForFunction evaluates in the page: the state it leaves
\* in window.__domStability, whether it computed the signature, its result.
domStabilityPredicate(stability, dom, now) ==
    LET st == IF stability.exists THEN stability
              ELSE [exists |-> TRUE, signature |-> << >>, lastChange |-> now,
                    lastSigAt |-> 0]
    IN IF now - st.lastSigAt < MinSigIntervalMs
       THEN [st |-> st, computed |-> FALSE, result |-> now - st.lastChange >= QuietMs]
       ELSE IF domSignature(dom) # st.signature
       THEN [st |-> [st EXCEPT !.lastSigAt = now, !.signature = domSignature(dom),
                               !.lastChange = now],
             computed |-> TRUE, result |-> FALSE]
       ELSE [st |-> [st EXCEPT !.lastSigAt = now],
             computed |-> TRUE, result |-> now - st.lastChange >= QuietMs]

\* A wait whose rejection is not caught.
SettleRejectionThrown(reason) == "threw"

\* .catch(() => {}): a rejection of waitForFunction (its timeout) is swallowed
\* and waitForDomToSettle resolves.
SettleRejectionCaught(reason) == reason

\* The call: the clock, the document and when its signature last changed,
\* window.__domStability, the signatures the predicate computed and when,
\* and how the call ended ("pending": it has not).
InitSettle ==
    /\ pages = << >>
    /\ marketData = NoRecord
    /\ pc = "idle"
    /\ lastOp = "none"
    /\ nonScrapedPageMap = << >>
    /\ visited = {}
    /\ queue = {}
    /\ enqueued = {}
    /\ maxDepth = Infinity
    /\ savedUrls = {}
    /\ errorUrls = {}
    /\ maxConcurrency = DefaultMaxConcurrency
    /\ stats = NoStats
    /\ agg = AggIdle
    /\ lastWriteKeys = {}
    /\ writtenKeys = {}
    /\ site = SiteOfTwo
    /\ tracked = {}
    /\ driver = NoDriver
    /\ call \in [op : {"waitForDomToSettle"}, start : {SettleStart}, now : {SettleStart},
                 dom : Doms, sigChangedAt : {0}, stability : {NoStability},
                 computed : {{}}, outcome : {"pending"}]

\* Time passes, up to the timeout of waitForFunction.
SettleTick ==
    /\ call.op = "waitForDomToSettle"
    /\ call.outcome = "pending"
    /\ call.now - call.start < TimeoutMs
    /\ call' = [call EXCEPT !.now = @ + 1]
    /\ UNCHANGED othersThanCall

\* The page changes its document.
DomChanges ==
    /\ call.op = "waitForDomToSettle"
    /\ call.outcome = "pending"
    /\ \E dom \in Doms \ {call.dom} :
          call' = [call EXCEPT !.dom = dom,
                               !.sigChangedAt =
                                   IF domSignature(dom) # domSignature(call.dom)
                                   THEN call.now ELSE @]
    /\ UNCHANGED othersThanCall

\* waitForFunction evaluates the predicate (on an animation frame); the wait
\* ends when it is true.
SettlePoll ==
    /\ call.op = "waitForDomToSettle"
    /\ call.outcome = "pending"
    /\ LET p == domStabilityPredicate(call.stability, call.dom, call.now)
       IN call' = [call EXCEPT
                     !.stability = p.st,
                     !.computed = IF p.computed
                                  THEN @ \cup {[at |-> call.now, signature |-> p.st.signature]}
                                  ELSE @,
                     !.outcome = IF p.result THEN "quiet" ELSE "pending"]
    /\ UNCHANGED othersThanCall

\* timeoutMs has elapsed: waitForFunction rejects
SettleTimesOut ==
    /\ call.op = "waitForDomToSettle"
    /\ call.outcome = "pending"
    /\ call.now - call.start >= TimeoutMs
    /\ call' = [call EXCEPT !.outcome = SettleRejectionCaught("timeout")]
    /\ UNCHANGED othersThanCall

NextSettle ==
    \/ SettleTick
    \/ DomChanges
    \/ SettlePoll
    \/ SettleTimesOut

SpecSettle == InitSettle /\ [][NextSettle]_vars

\* ------------------------------------------------- the links of a saved page
\*
\* What requestHandler does with the anchors of the page it saves: rawLinks,
\* urlsToEnqueue and enqueueLinks. A URL is the record of its scheme, its
\* hostname, its path and how its text ends (an extension, or "" for none);
\* an href is what the attribute holds: "empty", "invalid" (new URL throws),
\* "relative" (a path) or "absolute" (a whole URL).

MaxAnchors == 3
MaxLinkDepth == 2

Url(scheme, host, path, ending) ==
    [scheme |-> scheme, host |-> host, path |-> path, ending |-> ending]

Href(form, url) == [form |-> form, url |-> url]

\* page.url() of the page that is saved
LinksPageUrl == Url("https", "hotel.com", "/", "")

Hrefs ==
    {Href("empty", Url("", "", "", "")), Href("invalid", Url("", "", "", ""))}
    \cup {Href("relative", Url("", "", "/rooms", "")),
          Href("relative", Url("", "", "/menu", ".pdf")),
          Href("relative", Url("", "", "/map", ".PDF"))}
    \cup {Href("absolute", Url("https", "hotel.com", "/rooms", "")),
          Href("absolute", Url("http", "hotel.com", "/spa", "")),
          Href("absolute", Url("https", "hotel.com", "/logo", ".png")),
          Href("absolute", Url("https", "other.com", "/", "")),
          Href("absolute", Url("https", "maps.google.com", "/", "")),
          Href("absolute", Url("javascript", "", "void(0)", "")),
          Href("absolute", Url("tel", "", "+100", "")),
          Href("absolute", Url("mailto", "", "info@hotel.com", ""))}

\* a[href] elements: the attribute, and whether isAd(a) holds
Anchors ==
    {[href |-> h, isAd |-> FALSE] : h \in Hrefs}
    \cup {[href |-> Href("relative", Url("", "", "/offers", "")), isAd |-> TRUE]}

blockedHosts == {"google.com", "bing.com", "yahoo.com"}

\* url.hostname.includes(host), for the hostnames of the model
HostnameIncludes(hostname, host) ==
    \/ hostname = host
    \/ hostname = "maps.google.com" /\ host = "google.com"

blockedExtensions ==
    {".jpg", ".jpeg", ".png", ".gif", ".webp", ".svg", ".ico", ".bmp", ".mp4",
     ".avi", ".mov", ".wmv", ".flv", ".webm", ".mkv", ".m4v", ".pdf", ".mp3",
     ".wav", ".ogg", ".aac", ".flac"}

\* String.prototype.toLowerCase, on the texts of the model
toLowerCase(text) == IF text = ".PDF" THEN ".pdf" ELSE text

\* new URL(href, base): the URL, or that the constructor throws
NewURL(href, base) ==
    CASE href.form = "invalid" -> [ok |-> FALSE, url |-> base]
      [] href.form = "empty" -> [ok |-> TRUE, url |-> base]
      [] href.form = "relative" ->
            [ok |-> TRUE,
             url |-> Url(base.scheme, base.host, href.url.path, href.url.ending)]
      [] OTHER -> [ok |-> TRUE, url |-> href.url]

\* rawLinks: the href of the anchors that are not ads, empty ones dropped,
\* those of a blocked host dropped, those new URL rejects kept; [] when
\* page.evaluate rejects.
RawLinks(anchors, location, evaluateRejects) ==
    IF evaluateRejects THEN {}
    ELSE {h \in {a.href : a \in {b \in anchors : ~b.isAd}} :
             /\ h.form # "empty"
             /\ LET parsed == NewURL(h, location)
                IN  parsed.ok =>
                       ~\E host \in blockedHosts :
                            HostnameIncludes(parsed.url.host, host)}

\* urlsToEnqueue: each raw link resolved against pageUrl, '' for the ones
\* new URL rejects, and the '' filtered out.
UrlsToEnqueue(rawLinks, pageUrl) ==
    {NewURL(h, pageUrl).url : h \in {g \in rawLinks : NewURL(g, pageUrl).ok}}

\* A transformRequestFunction without the test of blockedExtensions.
transformRequestFunctionAnyEnding(url, seen, currentDepth, depthLimit) ==
    IF \/ toLowerCase(url.scheme) \in {"javascript", "tel"}
       \/ url \in seen
       \/ (depthLimit # Infinity /\ currentDepth + 1 > depthLimit)
    THEN {}
    ELSE {[url |-> url, depth |-> currentDepth + 1]}

\* transformRequestFunction: the request with its userData, or none for false.
transformRequestFunction(url, seen, currentDepth, depthLimit) ==
    IF \/ toLowerCase(url.scheme) \in {"javascript", "tel"}
       \/ toLowerCase(url.ending) \in blockedExtensions
       \/ url \in seen
       \/ (depthLimit # Infinity /\ currentDepth + 1 > depthLimit)
    THEN {}
    ELSE {[url |-> url, depth |-> currentDepth + 1]}

\* enqueueLinks is called without a strategy: crawlee's default one,
\* same-hostname, keeps the http and https URLs of the hostname of the page.
SameHostname(url, base) ==
    /\ url.scheme \in {"http", "https"}
    /\ url.host = base.host

\* enqueueLinks({ urls, transformRequestFunction }): the requests added.
EnqueuedRequests(urls, base, seen, currentDepth, depthLimit) ==
    UNION {transformRequestFunction(u, seen, currentDepth, depthLimit) :
              u \in {v \in urls : SameHostname(v, base)}}

AnchorSets == {as \in SUBSET Anchors : Cardinality(as) <= MaxAnchors}

\* The handler has saved the page: visited holds pageUrl.
InitLinks ==
    /\ pages = << >>
    /\ marketData = NoRecord
    /\ pc = "idle"
    /\ lastOp = "none"
    /\ nonScrapedPageMap = << >>
    /\ visited = {}
    /\ queue = {}
    /\ enqueued = {}
    /\ maxDepth = Infinity
    /\ savedUrls = {}
    /\ errorUrls = {}
    /\ maxConcurrency = DefaultMaxConcurrency
    /\ stats = NoStats
    /\ agg = AggIdle
    /\ lastWriteKeys = {}
    /\ writtenKeys = {}
    /\ site = {}
    /\ tracked = {}
    /\ driver = NoDriver
    /\ \E anchors \in AnchorSets, evaluateRejects \in BOOLEAN,
          currentDepth \in 0..MaxLinkDepth,
          depthLimit \in (1..MaxLinkDepth) \cup {Infinity},
          seen \in SUBSET {Url("https", "hotel.com", "/rooms", "")} :
          /\ currentDepth <= depthLimit
          /\ call = [op |-> "links", stage |-> "page", anchors |-> anchors,
                     evaluateRejects |-> evaluateRejects,
                     currentDepth |-> currentDepth, maxDepth |-> depthLimit,
                     visited |-> seen \cup {LinksPageUrl},
                     rawLinks |-> {}, urlsToEnqueue |-> {}, requests |-> {}]

CollectRawLinks ==
    /\ call.op = "links"
    /\ call.stage = "page"
    /\ call' = [call EXCEPT
                  !.stage = "raw",
                  !.rawLinks = RawLinks(call.anchors, LinksPageUrl,
                                        call.evaluateRejects)]
    /\ UNCHANGED othersThanCall

ResolveLinks ==
    /\ call.op = "links"
    /\ call.stage = "raw"
    /\ call' = [call EXCEPT
                  !.stage = "resolved",
                  !.urlsToEnqueue = UrlsToEnqueue(call.rawLinks, LinksPageUrl)]
    /\ UNCHANGED othersThanCall

EnqueueLinks ==
    /\ call.op = "links"
    /\ call.stage = "resolved"
    /\ call' = [call EXCEPT
                  !.stage = "enqueued",
                  !.requests =
                      IF call.urlsToEnqueue = {} THEN {}
                      ELSE EnqueuedRequests(call.urlsToEnqueue, LinksPageUrl,
                                            call.visited, call.currentDepth,
                                            call.maxDepth)]
    /\ UNCHANGED othersThanCall

NextLinks ==
    \/ CollectRawLinks
    \/ ResolveLinks
    \/ EnqueueLinks

SpecLinks == InitLinks /\ [][NextLinks]_vars

\* ================================================================ claims

\* A dirty page: active, with markdown, whose llm_input_checksum is NULL or
\* differs from its checksum.
PageIsDirty(row) ==
    /\ row.active = 1
    /\ ~Falsy(row.markdown)
    /\ (row.llm_input_checksum = NULL \/ row.llm_input_checksum # row.checksum)

DirtyIds(table, hotelUuid) ==
    {i \in RowIdsOf(table, hotelUuid) : PageIsDirty(table[i])}

AggregateReturned == pc = "idle" /\ lastOp = "aggregate"

\* ---- C1

\* C1 as stated: once aggregateScrapedData has returned after a scrapeHotel
\* that returned, no page of the hotel is dirty, whatever the extractor calls
\* and the markLLMInput writes did (the run's dirty-page query having
\* succeeded).
C1_AsStated ==
    (AggregateReturned /\ agg.prev = "scrape" /\ ~agg.queryFailed)
        => DirtyIds(pages, Hotel) = {}

\* C1, amended: once aggregateScrapedData has returned or thrown after a
\* scrapeHotel that returned, a page of the hotel is dirty only if the
\* dirty-page query failed, or the extractor call for the page threw, or the
\* markLLMInput write for the page failed.
C1_DirtyOnlyIfUnmarked ==
    (pc = "idle" /\ lastOp \in {"aggregate", "aggregate_threw"} /\ agg.prev = "scrape")
        => (agg.queryFailed \/ DirtyIds(pages, Hotel) \subseteq agg.unmarked)

\* A scrape, then an aggregation that selected pages and marked them all: an
\* active page carries the checksum of its LLM input, and none is dirty.
C1_Witness ==
    /\ AggregateReturned
    /\ agg.prev = "scrape"
    /\ agg.selected
    /\ agg.unmarked = {}
    /\ agg.upserts = 1
    /\ DirtyIds(pages, Hotel) = {}
    /\ \E i \in RowIdsOf(pages, Hotel) :
          pages[i].active = 1 /\ pages[i].llm_input_checksum = pages[i].checksum

\* ---- C2

\* C2 as stated: when scrapeHotel returns, the URLs of the hotel's active rows
\* are exactly the URLs saveScrapedPage saved in this run.
C2_AsStated ==
    (pc = "idle" /\ lastOp = "scrape") => ActiveUrls(pages, Hotel) = savedUrls

\* ---- C3

AdjudicatorOnlyFailed ==
    /\ pc = "write"
    /\ agg.existingData.exists
    /\ agg.adjRequests > 0
    /\ ~agg.adjAnswered

\* C4 as stated: when every adjudicator request of a run fails and the hotel
\* has a record, the run's write changes no field of the record.
C4_AsStated ==
    [][AdjudicatorOnlyFailed => marketData' = marketData]_vars

\* A category whose stored value is a text: neither empty nor "N/A".
StoredText(record, name) ==
    ~Falsy(Column(record, name)) /\ Column(record, name) # NA

\* C4, amended: when no adjudicator request of a run is answered and the hotel
\* has a record, the run changes no category whose stored value is non-empty
\* and not "N/A" (a category stored empty or "N/A" takes the new refined
\* value without the adjudicator, and other_structured follows other).
C4_StoredTextsKept ==
    [][(pc = "write" /\ agg.existingData.exists /\ ~agg.adjAnswered)
          => \A name \in FieldNames(MD_CAT_FIELDS) :
                StoredText(marketData, name)
                    => Column(marketData', name) = Column(marketData, name)]_vars

\* A run in which the adjudicator was asked and never answered has written
\* the record all the same, keeping a stored text.
C4_Witness ==
    /\ AggregateReturned
    /\ agg.adjRequests > 0
    /\ ~agg.adjAnswered
    /\ agg.upserts = 1
    /\ \E name \in FieldNames(MD_CAT_FIELDS) :
          StoredText(marketData, name) /\ name \notin lastWriteKeys

\* ---- C5

\* C5: every key of every payload given to upsertMarketData is a category of
\* MD_CAT_FIELDS or other_structured, whatever keys the extractor's responses
\* carried (every object response of the model carries a key of no category).
C5_PayloadKeysInSchema ==
    writtenKeys \subseteq (FieldNames(MD_CAT_FIELDS) \cup {OTHER_STRUCTURED})

\* A payload with a category and other_structured has been written; its
\* values come from snippets of responses that carried the bogus key.
C5_Witness ==
    /\ AggregateReturned
    /\ "guest_rooms" \in lastWriteKeys
    /\ OTHER_STRUCTURED \in lastWriteKeys
    /\ ~Falsy(Column(marketData, "guest_rooms"))

\* ---- C6

\* The rows C6 describes: of the hotel, active, with markdown, and with
\* llm_input_checksum NULL or different from checksum.
DescribedByC6(table, hotelUuid) ==
    {i \in Ids(table) :
        /\ table[i].hotel_uuid = hotelUuid
        /\ table[i].active = 1
        /\ table[i].markdown # NULL
        /\ table[i].markdown # EMPTY
        /\ \/ table[i].llm_input_checksum = NULL
           \/ table[i].llm_input_checksum # table[i].checksum}

ResultIds(result) == {result[i] : i \in DOMAIN result}

\* C6 as stated: getActiveMarkdownPages returns exactly the dirty rows of the
\* hotel.
C6_AsStated ==
    call.op = "getActiveMarkdownPages"
        => ResultIds(call.result) = DescribedByC6(pages, call.hotelUuid)

\* C6, amended: getActiveMarkdownPages returns exactly the dirty rows of the
\* hotel when its query succeeds, each once, and the empty list when the
\* query fails.
C6_DirtyRowsOrNone ==
    call.op = "getActiveMarkdownPages"
        => IF call.queryOk
           THEN /\ ResultIds(call.result) = DescribedByC6(pages, call.hotelUuid)
                /\ Len(call.result) = Cardinality(ResultIds(call.result))
           ELSE call.result = << >>

\* A successful call on a table with a row never marked, which it returns,
\* and a row of the hotel that it leaves out.
C6_Witness ==
    /\ call.op = "getActiveMarkdownPages"
    /\ call.queryOk
    /\ \E i \in ResultIds(call.result) : pages[i].llm_input_checksum = NULL
    /\ \E i \in RowIdsOf(pages, Hotel) :
          /\ i \notin ResultIds(call.result)
          /\ pages[i].active = 1
          /\ pages[i].llm_input_checksum = pages[i].checksum

\* ---- C7

C8_AsStated ==
    (AggregateReturned /\ lastWriteKeys # {})
        => (~Falsy(Column(marketData, OTHER_STRUCTURED)) <=> "other" \in lastWriteKeys)

\* C8, amended: a write that updates other sets other_structured to a
\* non-empty text, and nothing else sets it: other_structured is non-empty if
\* and only if other was among the keys of some write so far.
C8_OtherStructuredFollowsOther ==
    /\ ("other" \in lastWriteKeys => ~Falsy(Column(marketData, OTHER_STRUCTURED)))
    /\ (~Falsy(Column(marketData, OTHER_STRUCTURED)) <=> "other" \in writtenKeys)
    /\ (OTHER_STRUCTURED \in lastWriteKeys <=> "other" \in lastWriteKeys)

\* A write that updated other, with the structured form of a non-empty other.
C8_Witness ==
    /\ AggregateReturned
    /\ "other" \in lastWriteKeys
    /\ ~Falsy(Column(marketData, "other"))
    /\ Column(marketData, OTHER_STRUCTURED) = <<"{json}">>

\* ---- C9

MergeReturned == call.op = "mergeTextsByLLM" /\ call.returned

\* new_text is blank after trimming, or equals existing_text after trimming both
NothingToMerge(existingText, newText) ==
    \/ Trim(OrEmpty(newText)) = EMPTY
    \/ Trim(OrEmpty(newText)) = Trim(OrEmpty(existingText))

AdjudicatorFailed(llm) ==
    \/ llm.throws
    \/ LET parsed == llmOutputToJson(llm.content)
       IN ~(/\ Truthy(parsed)
            /\ TypeofObject(parsed)
            /\ Get(parsed, "isUpdate").t = "boolean"
            /\ Get(parsed, "mergedText").t = "string")

HasValue(v) == ~Falsy(v) /\ v # NA

\* The categories of mergedData that hold a value.
ChangedCategories(mergedData) ==
    {n \in FieldNames(CATEGORY_FIELDS) \cap DOMAIN mergedData : HasValue(mergedData[n])}

\* The tail of aggregateScrapedData ran and returned.
WriteStep == pc = "write" /\ lastOp' = "aggregate"

\* C11 as stated: when no category has a changed value the tail of
\* aggregateScrapedData does not call upsertMarketData; otherwise it calls it
\* once, and the keys of the payload are changed categories (and the column
\* other_structured derived from them).
C11_AsStated ==
    [][WriteStep =>
         IF ChangedCategories(agg.mergedData) = {}
         THEN agg'.upserts = agg.upserts
         ELSE /\ agg'.upserts = agg.upserts + 1
              /\ lastWriteKeys' \subseteq
                    ChangedCategories(agg.mergedData) \cup {OTHER_STRUCTURED}]_vars

\* ---- C12

\* C12 as stated: when the hotel has no record, the categories of the written
\* payload are exactly those whose refined value is not empty and not "N/A",
\* and other_structured is written only if other has such a value.
C12_AsStated ==
    [][(WriteStep /\ ~agg.existingData.exists) =>
         /\ lastWriteKeys' \cap FieldNames(CATEGORY_FIELDS) =
               ChangedCategories(agg.mergedData)
         /\ (OTHER_STRUCTURED \in lastWriteKeys' =>
               "other" \in ChangedCategories(agg.mergedData))]_vars

\* ---- C16

\* C16 as stated: an LLM request that fails for one category does not end the
\* run; the refine loop goes on to the next category, or to the load of the
\* record after the last one.
C16_AsStated ==
    [][pc = "refine" => (pc' \in {"refine", "load"} /\ lastOp' # "aggregate_threw")]_vars

\* ---- C14

\* C14: an iteration of the per-page loop, whether its extractor request
\* throws or not, never ends the run: the loop goes on to the next page of
\* the list, or to the refinement after the last page; the iteration in which
\* the extractor first throws leaves the snippets collected so far as they were.
C14_FailedPageDoesNotAbort ==
    [][pc = "extract" =>
         /\ lastOp' # "aggregate_threw"
         /\ pc' = IF agg.idx = Len(agg.pagesList) THEN "refine" ELSE "extract"
         /\ (agg.idx < Len(agg.pagesList) =>
                /\ agg'.idx = agg.idx + 1
                /\ agg'.pagesList = agg.pagesList)
         /\ ((~agg.extractorThrew /\ agg'.extractorThrew) =>
                /\ agg'.fieldBuckets = agg.fieldBuckets
                /\ pages' = pages)]_vars

\* The extractor threw for the first of two dirty pages, the second page was
\* extracted and marked, and the run has reached its writing step with the
\* refined snippet of the second page.
C14_Witness ==
    /\ pc = "write"
    /\ agg.extractorThrew
    /\ agg.unmarked = {1}
    /\ Len(pages) = 2
    /\ "guest_rooms" \in DOMAIN agg.mergedData
    /\ HasValue(agg.mergedData["guest_rooms"])

\* ---- C13

\* The categories for which mergeTextsByLLM returned isUpdate = true in this run.
UpdatesOfAdjudicator ==
    {n \in DOMAIN agg.DEBUG2_LOGS : agg.DEBUG2_LOGS[n].isUpdate}

\* C13 as stated: with an existing record, a category is in the written
\* payload if and only if the adjudicator returned isUpdate = true for it,
\* and the value written is the adjudicator's mergedText.
C13_AsStated ==
    [][(WriteStep /\ agg.existingData.exists) =>
         \A n \in FieldNames(CATEGORY_FIELDS) :
            /\ n \in lastWriteKeys' <=> n \in UpdatesOfAdjudicator
            /\ n \in lastWriteKeys' =>
                  marketData'.cols[n] = agg.DEBUG2_LOGS[n].mergedText]_vars

\* C13, amended: with an existing record, a category for which
\* mergeTextsByLLM was called is in the written payload if and only if it
\* returned isUpdate = true with a non-empty mergedText, and that text is the
\* value written; a category for which it was not called is written only if
\* its stored value is empty or "N/A", and then with the new refined value.
C13_UpdatesAndEmptyStored ==
    [][(WriteStep /\ agg.existingData.exists) =>
         \A n \in FieldNames(CATEGORY_FIELDS) :
            IF n \in DOMAIN agg.DEBUG2_LOGS
            THEN /\ n \in lastWriteKeys' <=>
                       (n \in UpdatesOfAdjudicator /\ agg.DEBUG2_LOGS[n].mergedText # EMPTY)
                 /\ n \in lastWriteKeys' =>
                       marketData'.cols[n] = agg.DEBUG2_LOGS[n].mergedText
            ELSE n \in lastWriteKeys' =>
                    /\ ~HasValue(Column(agg.existingData, n))
                    /\ HasValue(marketData'.cols[n])]_vars

\* A run for a hotel with a record has returned after an answered adjudicator
\* request and one upsert that wrote the merged text of guest_rooms.
C13_Witness ==
    /\ pc = "idle"
    /\ lastOp = "aggregate"
    /\ agg.adjAnswered
    /\ agg.upserts = 1
    /\ "guest_rooms" \in lastWriteKeys
    /\ marketData.cols["guest_rooms"] = <<"r1">>

\* ---- C15

\* main has ended after it entered its loop.
LoopEnded == driver.pc \in {"done", "fatal"} /\ driver.i >= 1

\* C15 as stated: whatever fails for one hotel, every later hotel of the list
\* is still processed: the loop ends only after its last hotel.
C15_AsStated == LoopEnded => driver.i = Len(driver.hotels)

\* ---- C17

NormalMode == ~driver.env.UNIT_TEST

\* C17: in normal mode, aggregateScrapedData is called for a hotel only after
\* scrapeHotel for that hotel has returned (so after its crawl and its
\* deactivation), and never for a hotel whose scrapeHotel threw or is running.
C17_AggregateAfterScrapeReturned ==
    (driver.pc \notin {"none"} /\ NormalMode) =>
       \A k \in DOMAIN driver.hotels :
          driver.aggregate[k] # "none" => driver.scrape[k] = "returned"

\* In normal mode scrapeHotel threw for the first hotel, for which
\* aggregateScrapedData was not called, and returned for the second, for
\* which aggregateScrapedData was called.
C17_Witness ==
    /\ driver.pc = "done"
    /\ NormalMode
    /\ Len(driver.hotels) >= 2
    /\ driver.scrape[1] = "threw"
    /\ driver.aggregate[1] = "none"
    /\ driver.scrape[2] = "returned"
    /\ driver.aggregate[2] = "returned"

\* ---- C18

\* The crawl has drained its queue and scrapeHotel is about to return.
CrawlDrained == pc = "crawl" /\ queue = {}

C19_ErrorPageNotPersisted ==
    [][\A req \in queue :
          (pc' = "crawl" /\ InHandler(req) /\ req.page # "ok" /\ req \notin queue') =>
             /\ stats'.errors = stats.errors + 1
             /\ stats'.scraped = stats.scraped
             /\ pages' = pages
             /\ savedUrls' = savedUrls
             /\ visited' = visited
             /\ enqueued' = enqueued
             /\ queue' = queue \ {req}]_vars

\* The run has handled an error page at a URL that a link of a saved page led
\* to: one error is counted, the URL is not visited and the table has no row
\* of it.
C19_Witness ==
    /\ pc = "crawl"
    /\ errorUrls = {"u2"}
    /\ stats.errors = 1
    /\ stats.scraped = 1
    /\ "u2" \notin visited
    /\ RowIdsOfUrl(pages, Hotel, "u2") = {}

\* ---- C20

\* C20 as stated: with max_concurrency >= 2, in every interleaving of the
\* handlers no effective URL is saved twice in a run: the number of pages
\* counted as scraped is the number of distinct URLs saved.
C20_AsStated ==
    (maxConcurrency >= 2 /\ (pc = "crawl" \/ (pc = "idle" /\ lastOp = "scrape"))) =>
       stats.scraped = Cardinality(savedUrls)

\* ---- C27

\* C27: waitForDomToSettle never throws: it returns normally when the
\* predicate found the signature quiet, and when the timeout elapsed.
C27_SettleReturnsNormally ==
    call.op = "waitForDomToSettle" =>
       /\ call.outcome \in {"pending", "quiet", "timeout"}
       /\ (call.outcome = "timeout" => call.now - call.start >= TimeoutMs)

\* The call returned on its timeout while the signature had changed less
\* than quietMs before.
C27_Witness ==
    /\ call.op = "waitForDomToSettle"
    /\ call.outcome = "timeout"
    /\ call.now - call.sigChangedAt < QuietMs

\* ---- C30

\* The call returned before its timeout.
SettledQuiet == call.op = "waitForDomToSettle" /\ call.outcome = "quiet"

C26_AsStated ==
    [][driver.pc # "none" =>
         /\ (driver.signal # "none" =>
               /\ driver'.i = driver.i
               /\ \A k \in DOMAIN driver.hotels :
                     /\ driver'.scrape[k] = "running" => driver.scrape[k] = "running"
                     /\ driver'.aggregate[k] = "running" => driver.aggregate[k] = "running")
         /\ (driver'.signal = "exited" => driver'.pc \notin {"scrape", "aggregate"})]_vars

\* ---- C28

LinksEnqueued == call.op = "links" /\ call.stage = "enqueued"

\* C28: every request the handler enqueues has an absolute http(s) URL that
\* does not start with javascript: or tel:, does not end in a blocked
\* extension and is not in visited, and carries the depth of the page plus
\* one, within maxDepth; it comes from an anchor whose href is not empty.
C28_EnqueuedRequestsFiltered ==
    LinksEnqueued =>
       \A r \in call.requests :
          /\ r.url.scheme \in {"http", "https"}
          /\ r.url.host # ""
          /\ toLowerCase(r.url.scheme) \notin {"javascript", "tel"}
          /\ toLowerCase(r.url.ending) \notin blockedExtensions
          /\ r.url \notin call.visited
          /\ r.depth = call.currentDepth + 1
          /\ (call.maxDepth # Infinity => r.depth <= call.maxDepth)
          /\ \E a \in call.anchors :
                /\ a.href.form # "empty"
                /\ NewURL(a.href, LinksPageUrl).ok
                /\ NewURL(a.href, LinksPageUrl).url = r.url

C28_Witness ==
    /\ LinksEnqueued
    /\ call.requests # {}
    /\ \E a \in call.anchors : a.href.form = "empty"
    /\ \E a \in call.anchors :
          a.href.form # "empty" /\ toLowerCase(a.href.url.ending) \in blockedExtensions

\* ---- C29

\* The page the per-page loop is at.
PageAtIdx == agg.pagesList[agg.idx]

\* C29 as stated: once the extractor has returned for a page (no extractor
\* call of the run having thrown), the page's llm_input_checksum is the
\* checksum read with its markdown, its llm_output is written, and the page
\* is not dirty.
C29_AsStated ==
    [][(pc = "extract" /\ ~agg'.extractorThrew) =>
          /\ pages'[PageAtIdx.id].llm_input_checksum = PageAtIdx.checksum
          /\ pages'[PageAtIdx.id].llm_output # NULL
          /\ ~PageIsDirty(pages'[PageAtIdx.id])]_vars

\* C29: when the extractor has returned for a page and the UPDATE of
\* markLLMInput has succeeded, the page's llm_input_checksum is the checksum
\* read with its markdown, which is the row's checksum, its llm_output is
\* JSON.stringify of the object whose snippets went into the buckets, and the
\* page is not dirty.
C29_MarkedAfterExtraction ==
    [][(pc = "extract" /\ PageAtIdx.id \notin agg'.unmarked) =>
          \E content \in ExtractorContents :
             LET extracted == extractFieldsFromPage(Returns(content))
                 row == pages'[PageAtIdx.id]
             IN /\ row.llm_input_checksum = PageAtIdx.checksum
                /\ row.llm_input_checksum = row.checksum
                /\ row.llm_output = JSONstringify(extracted)
                /\ agg'.fieldBuckets =
                      CollectSnippets(agg.fieldBuckets, extracted, PageAtIdx.page_url)
                /\ ~PageIsDirty(row)
                /\ \A i \in DOMAIN pages : i # PageAtIdx.id => pages'[i] = pages[i]]_vars

C29_Witness ==
    /\ pc = "extract"
    /\ agg.idx = 2
    /\ agg.unmarked = {}
    /\ pages[agg.pagesList[1].id].llm_output = <<"{json}">>
    /\ pages[agg.pagesList[1].id].llm_input_checksum = pages[agg.pagesList[1].id].checksum

\* ---- C21

SaveWriteStep ==
    /\ call.op = "saveScrapedPage"
    /\ \E k \in 1..MaxSaves :
          call.saves[k].stage = "looked" /\ call'.saves[k].stage = "returned"

WritingSave ==
    CHOOSE k \in 1..MaxSaves :
        call.saves[k].stage = "looked" /\ call'.saves[k].stage = "returned"

CrawlSaveStep == pc = "crawl" /\ stats'.scraped = stats.scraped + 1

SavingRequest == CHOOSE r \in queue : r \notin queue'

SavedRowId == SavingRequest.lookup.targetId

\* C23 as stated: a save whose checksum is the one the row holds leaves the
\* row's markdown, markdown_prev, checksum, is_checksum_updated and
\* llm_input_checksum as they are.
C23_AsStated ==
    [][(CrawlSaveStep /\ SavedRowId # 0
           /\ pages'[SavedRowId].checksum = pages[SavedRowId].checksum) =>
          /\ pages'[SavedRowId].markdown = pages[SavedRowId].markdown
          /\ pages'[SavedRowId].markdown_prev = pages[SavedRowId].markdown_prev
          /\ pages'[SavedRowId].is_checksum_updated = pages[SavedRowId].is_checksum_updated
          /\ pages'[SavedRowId].llm_input_checksum = pages[SavedRowId].llm_input_checksum]_vars

\* ---- C24

\* The step that ends a crawl run: the deactivation of the stale rows.
DeactivationStep == pc = "crawl" /\ lastOp' = "scrape"

\* C24: no step removes a row or gives a row another hotel or URL; the
\* deactivation at the end of a run changes nothing but active, which it sets
\* to 0, of rows that were in nonScrapedPageMap, and leaves the rows of the
\* URLs saved in the run as they are.
C24_DeactivationOnlyClearsActive ==
    [][/\ Len(pages') >= Len(pages)
       /\ \A i \in DOMAIN pages :
             /\ pages'[i].hotel_uuid = pages[i].hotel_uuid
             /\ pages'[i].page_url = pages[i].page_url
       /\ DeactivationStep =>
             \A i \in DOMAIN pages :
                /\ \/ pages'[i] = pages[i]
                   \/ /\ i \in MapValues(nonScrapedPageMap)
                      /\ pages'[i] = [pages[i] EXCEPT !.active = 0]
                /\ pages[i].page_url \in savedUrls => pages'[i] = pages[i]]_vars

C24_Witness ==
    /\ pc = "idle"
    /\ lastOp = "scrape"
    /\ \E i, j \in DOMAIN pages :
          /\ pages[i].active = 0
          /\ pages[i].llm_input_checksum = pages[i].checksum
          /\ pages[i].page_url \notin savedUrls
          /\ pages[j].active = 1
          /\ pages[j].page_url \in savedUrls

\* ---- C25

\* C25 as stated: the depth a row holds is the depth at which it was first
\* saved; no later save changes it.
C25_AsStated ==
    [][\A i \in DOMAIN pages : pages'[i].depth = pages[i].depth]_vars

\* ---- C31

\* C31: the per-page loop is entered with the list of the hotel's dirty
\* pages, each once, and with no page that is inactive, without markdown or
\* already marked; each step of the loop is the one extractor request of the
\* page at idx, after which the loop is at the next page, or is over after
\* the last, whether the request returned or threw; the loop is entered only
\* at the start of a run.
C31_OneExtractorRequestPerDirtyPage ==
    [][/\ (pc = "idle" /\ pc' = "extract") =>
             /\ agg'.idx = 1
             /\ {agg'.pagesList[k].id : k \in DOMAIN agg'.pagesList} = DirtyIds(pages, Hotel)
             /\ \A k, l \in DOMAIN agg'.pagesList :
                   agg'.pagesList[k].id = agg'.pagesList[l].id => k = l
       /\ pc = "extract" =>
             IF agg.idx < Len(agg.pagesList)
             THEN /\ pc' = "extract"
                  /\ agg'.idx = agg.idx + 1
                  /\ agg'.pagesList = agg.pagesList
             ELSE pc' = "refine"
       /\ (pc # "extract" /\ pc' = "extract") => pc = "idle"]_vars

C31_Witness ==
    /\ pc = "refine"
    /\ agg.extractorThrew
    /\ Cardinality(agg.unmarked) = 1
    /\ \E j \in DOMAIN pages :
          /\ pages[j].active = 0
          /\ pages[j].llm_input_checksum # pages[j].checksum
          /\ j \notin agg.unmarked

\* ---- C32

\* The category the refine loop is at, and what the refiner makes of its bucket.
RefinedName == CATEGORY_FIELDS[agg.fieldIdx]

RefinedInput == RefinerInput(agg.fieldBuckets[RefinedName])

SelectedIds(a) == {a.pagesList[k].id : k \in DOMAIN a.pagesList}

\* The entry of a run after a run that left pages unmarked.
RunAfterUnmarked == pc = "idle" /\ agg.unmarked # {} /\ agg' # agg

\* C33 as stated: the pages a run left unmarked are selected by the next run.
C33_AsStated ==
    [][RunAfterUnmarked => agg.unmarked \subseteq SelectedIds(agg')]_vars

\* C33: the iteration that leaves a page unmarked (its extractor request
\* threw) writes nothing to the page table; an unmarked page stays dirty,
\* during the run and after it; the next run selects it when its dirty-page
\* query succeeds, and selects nothing and returns when that query fails.
C33_ThrownPageStaysDirty ==
    [][/\ \A id \in agg.unmarked : PageIsDirty(pages[id])
       /\ (pc = "extract" /\ PageAtIdx.id \in agg'.unmarked) =>
             /\ pages' = pages
             /\ PageIsDirty(pages'[PageAtIdx.id])
       /\ RunAfterUnmarked =>
             IF agg'.queryFailed
             THEN pc' = "idle" /\ agg'.pagesList = << >>
             ELSE pc' = "extract" /\ agg.unmarked \subseteq SelectedIds(agg')]_vars

\* A run has selected the page that the run before it, whose extractor
\* request threw, left unmarked.
C33_Witness ==
    /\ pc = "extract"
    /\ agg.prev = "aggregate" /\ agg.prevSelected /\ ~agg.prevAllMarked
    /\ ~agg.queryFailed
    /\ pages[PageAtIdx.id].llm_input_checksum = NULL
    /\ pages[PageAtIdx.id].llm_output = NULL

\* ---- C34

\* The extractor's responses that parse to no value of type object.
Unparseable ==
    {content \in ExtractorContents :
        LET parsed == llmOutputToJson(content)
        IN ~Truthy(parsed) \/ ~TypeofObject(parsed)}

\* An iteration of the per-page loop that adds no snippet and whose extractor
\* request did not throw before or in it.
NoSnippetStep ==
    /\ pc = "extract"
    /\ agg'.fieldBuckets = agg.fieldBuckets
    /\ ~agg'.extractorThrew

\* C34 as stated: a page whose response gives no snippet is marked, its
\* llm_input_checksum being its checksum after the iteration.
C34_AsStated ==
    [][NoSnippetStep =>
          pages'[PageAtIdx.id].llm_input_checksum = pages'[PageAtIdx.id].checksum]_vars

\* C34: for a response that parses to no object, extractFieldsFromPage
\* returns {} (it does not throw), which adds no snippet to any bucket and
\* is stored as "{}"; the iteration then calls markLLMInput: when the UPDATE
\* succeeds the page has llm_input_checksum = checksum and is not dirty, and
\* a stored "{}" means the page added no snippet; when the UPDATE fails the
\* row is as it was, still dirty, and the loop goes on.
C34_UnparseableIsMarkedWhenWritten ==
    [][pc = "extract" =>
         /\ Unparseable # {}
         /\ \A content \in Unparseable :
               LET extracted == extractFieldsFromPage(Returns(content))
               IN /\ extracted = EmptyObj
                  /\ CollectSnippets(agg.fieldBuckets, extracted, PageAtIdx.page_url)
                        = agg.fieldBuckets
                  /\ JSONstringify(extracted) = <<"{}">>
         /\ IF PageAtIdx.id \in agg'.unmarked
            THEN pages' = pages /\ PageIsDirty(pages'[PageAtIdx.id])
            ELSE /\ pages'[PageAtIdx.id].llm_input_checksum = PageAtIdx.checksum
                 /\ pages'[PageAtIdx.id].checksum = PageAtIdx.checksum
                 /\ ~PageIsDirty(pages'[PageAtIdx.id])
                 /\ pages'[PageAtIdx.id].llm_output = <<"{}">> =>
                       agg'.fieldBuckets = agg.fieldBuckets
         /\ pc' = AfterPage]_vars

\* The one page of the run was marked with an empty mapping and gave no
\* snippet; no extractor request threw.
C34_Witness ==
    /\ pc = "refine"
    /\ agg.unmarked = {}
    /\ ~agg.extractorThrew
    /\ \A name \in DOMAIN agg.fieldBuckets : agg.fieldBuckets[name] = << >>
    /\ \E id \in DOMAIN pages :
          /\ pages[id].llm_output = <<"{}">>
          /\ pages[id].llm_input_checksum = pages[id].checksum

\* ---- C35

\* C35 as stated: a run that threw after its extraction stage (it had
\* selected at least one page) leaves the pages it selected dirty, so some
\* page of the hotel is dirty once it has thrown.
C35_AsStated ==
    (pc = "idle" /\ lastOp = "aggregate_threw" /\ agg.selected)
        => DirtyIds(pages, Hotel) # {}

\* ---- C36

\* The tail of a run for a hotel whose record was found.
WriteStepWithRecord == pc = "write" /\ pc' = "idle" /\ agg.existingData.exists

\* C36: in a run for a hotel with a record, the record the merge loop read
\* is the stored one; when the run returns, every category of the payload is
\* written with a non-empty text, every category outside the payload has the
\* value it had, so no category that had a text has none afterwards; a run
\* that throws writes nothing.
C36_NoCategoryEmptied ==
    [][WriteStepWithRecord =>
         /\ agg.existingData = marketData
         /\ marketData'.exists
         /\ \A name \in FieldNames(CATEGORY_FIELDS) :
               /\ IF lastOp' = "aggregate" /\ name \in lastWriteKeys'
                  THEN ~Falsy(Column(marketData', name))
                  ELSE Column(marketData', name) = Column(marketData, name)
               /\ ~Falsy(Column(marketData, name)) => ~Falsy(Column(marketData', name))]_vars

\* A run whose adjudicator answered has written a new text over the stored
\* guest_rooms and left the stored text of other.
C36_Witness ==
    /\ pc = "idle" /\ lastOp = "aggregate"
    /\ agg.adjAnswered
    /\ agg.upserts = 1
    /\ "guest_rooms" \in lastWriteKeys
    /\ "other" \notin lastWriteKeys
    /\ Column(marketData, "other") = <<"r2">>

\* ---- C37

\* The rows of the URL that the saving handler's page has.
RowsOfSavedUrl == RowIdsOfUrl(pages, Hotel, SavingRequest.pageUrl)

\* C37: a save whose lookup found a row that an earlier run deactivated
\* updates that row: no row is added, the row is active afterwards, its
\* llm_input_checksum is the one it had, and it is dirty exactly when it was
\* never given to the extractor or its new checksum is not the one given
\* last. A save inserts a row only when no row of the URL is inactive. The
\* deactivation that ends the run leaves the rows of the saved URLs that are
\* active as they are.
C37_ReactivatedInPlace ==
    [][/\ (CrawlSaveStep /\ SavedRowId # 0 /\ pages[SavedRowId].active = 0) =>
             /\ Len(pages') = Len(pages)
             /\ SavedRowId \in RowsOfSavedUrl
             /\ pages'[SavedRowId].active = 1
             /\ pages'[SavedRowId].llm_input_checksum = pages[SavedRowId].llm_input_checksum
             /\ \A i \in (DOMAIN pages) \ {SavedRowId} : pages'[i] = pages[i]
             /\ PageIsDirty(pages'[SavedRowId]) <=>
                   \/ pages[SavedRowId].llm_input_checksum = NULL
                   \/ pages'[SavedRowId].checksum # pages[SavedRowId].llm_input_checksum
       /\ (CrawlSaveStep /\ SavedRowId = 0) =>
             \A i \in RowsOfSavedUrl : pages[i].active = 1
       /\ DeactivationStep =>
             \A i \in DOMAIN pages :
                (pages[i].page_url \in savedUrls /\ pages[i].active = 1) =>
                    pages'[i] = pages[i]]_vars

\* A handler's lookup has found a row that was given to the extractor and
\* then deactivated; the handler is about to save it.
C37_Witness ==
    /\ pc = "crawl"
    /\ \E r \in queue :
          /\ r.lookup # NoLookup
          /\ r.lookup.targetId # 0
          /\ pages[r.lookup.targetId].active = 0
          /\ pages[r.lookup.targetId].llm_input_checksum = pages[r.lookup.targetId].checksum

\* ---- C38

\* C38: a crawl run that has started ends: scrapeHotel returns or throws,
\* whatever the depth limit, the pages' errors and the failures the crawler
\* retries. A run ends by returning only when the queue is drained, and the
\* step that ends it is the deactivation of the rows left in
\* nonScrapedPageMap (which a failed UPDATE leaves as they are); a run that
\* ends otherwise has thrown and has changed no row in ending.
C38_CrawlTerminates ==
    /\ (pc = "crawl") ~> (pc = "idle")
    /\ [][(pc = "crawl" /\ pc' = "idle") =>
            IF lastOp' = "scrape"
            THEN /\ queue = {}
                 /\ \/ pages' = deactivatePagesByIds(pages, MapValues(nonScrapedPageMap))
                    \/ pages' = pages /\ nonScrapedPageMap # << >>
            ELSE lastOp' = "scrape_threw" /\ pages' = pages]_vars

\* A run with no depth limit has returned after a request was retried to the
\* end, with an error page, a saved page and a deactivated row.
C38_Witness ==
    /\ pc = "idle" /\ lastOp = "scrape"
    /\ stats.errors > MaxRetries
    /\ stats.scraped >= 1
    /\ \E i \in DOMAIN pages : pages[i].active = 0

====
